---- MODULE Spec2Model ----
(***************************************************************************)
(* A model of the LSM-tree storage engine of huahuo_lsm_storage:           *)
(* the write-ahead log, the skip-list memtable, the mutable/immutable      *)
(* handoff, the on-disk table writer and three-tier reader, the pairwise   *)
(* merge, and the coordinator (LSMTree.Open/Put/Get/Delete/Close).         *)
(*                                                                         *)
(* Byte strings are modelled by small integers.  A key id k stands for a   *)
(* byte string of KeyLen(k) bytes, and the integer order of the ids is the *)
(* bytes.Compare order of the strings they stand for:                      *)
(*    0 = ""   1 = "a"   2 = "b"   3 = "b" x 65535   4 = "b" x 65536       *)
(* A value id v stands for a byte string of ValLen(v) bytes; 0 is the      *)
(* nil / empty slice (len 0).                                              *)
(* A file is the sequence of the records encode() wrote into it; byte      *)
(* offsets are computed from the encoded sizes of the records.             *)
(***************************************************************************)
EXTENDS Integers, Sequences, FiniteSets, TLC

\* ------------------------------------------------------------------ bounds
\* keys 1..NumKeys and values 1..NumValues are the ones the clients of Spec use
NumKeys == 2
NumValues == 2
\* the number of mutating calls (Put, Delete) one behaviour makes
MaxSteps == 3
\* the same, for the behaviours of SpecV (inputs of every length class)
MaxStepsV == 2
\* the number of times one behaviour kills the process inside a Put
MaxCrashes == 1
\* the keys a table of SpecTables is drawn from, and the largest sparseKeyDistance
MaxTableKeys == 3
MaxDistance == 3
\* the connections whose handlers run at once in SpecConn, and the calls each makes
NumConns == 2
MaxConnOps == 1
\* the longest key and the longest value, in bytes, given to encode in SpecCodec
MaxKeyBytes == 2
MaxValueBytes == 2
\* the HashRing of SpecRing: the node names, the virtual points a node takes
\* (160 * 4 in the program), the hash values, and the Add and Remove calls of
\* one behaviour
NumNodes == 2
PointsPerNode == 2
RingSize == 4
MaxRingOps == 3
MaxFrames == 2

\* ------------------------------------------------------ program constants
MaxKeySize == 65535
MaxValueSize == 65535
\* the size ceiling of a pair of data files in Put's compaction scan
MergeSizeCeiling == 2097152
\* the width of an encodeInt field
IntWidth == 8

Nil == 0
\* files of a merge in progress carry the prefix "merge" instead of "<i>-"
MergePrefix == -1
\* the value of maxDiskTableIndex of a fresh database
NoDiskTable == -1
\* the node name HashRing.Get returns with a nil error on an empty ring: ""
NoNode == 0

Keys == 1..NumKeys
Values == 1..NumValues
AllKeys == 0..4
AllValues == 0..4
\* one id of each length: 0, 1, 65535 and 65536 bytes
LengthClasses == {0, 1, 3, 4}

KeyLen(k) == CASE k = 0 -> 0
               [] k = 3 -> 65535
               [] k = 4 -> 65536
               [] OTHER -> 1

ValLen(v) == CASE v = 0 -> 0
               [] v = 3 -> 65535
               [] v = 4 -> 65536
               [] OTHER -> 1

\* ------------------------------------------------------------------ codec
\* encode: the number of bytes written for (key, value):
\* [8-byte total length][8-byte key length][key][value]
EncodedLen(keyLen, valueLen) == IntWidth + IntWidth + keyLen + valueLen

\* the bytes of a data-file or WAL record <<key, value>>
DataRecLen(rec) == EncodedLen(KeyLen(rec[1]), ValLen(rec[2]))

\* encodeKeyOffset: the bytes of an index or sparse record <<key, offset>>:
\* the value is the 8 bytes of encodeInt(offset)
IndexRecLen(rec) == EncodedLen(KeyLen(rec[1]), IntWidth)

\* the byte offset at which record i of a data file starts (i = Len+1: the size)
RECURSIVE DataOffset(_, _)
DataOffset(file, i) ==
    IF i <= 1 THEN 0 ELSE DataOffset(file, i - 1) + DataRecLen(file[i - 1])

\* the byte offset at which record i of an index file starts
RECURSIVE IndexOffset(_, _)
IndexOffset(file, i) ==
    IF i <= 1 THEN 0 ELSE IndexOffset(file, i - 1) + IndexRecLen(file[i - 1])

\* Seek(offset) on a data file: the record that starts there; Len+1 at or past
\* the end of the file; 0 when the offset is inside a record
DataSeek(file, offset) ==
    IF offset >= DataOffset(file, Len(file) + 1) THEN Len(file) + 1
    ELSE IF \E i \in 1..Len(file) : DataOffset(file, i) = offset
         THEN CHOOSE i \in 1..Len(file) : DataOffset(file, i) = offset
         ELSE 0

IndexSeek(file, offset) ==
    IF offset >= IndexOffset(file, Len(file) + 1) THEN Len(file) + 1
    ELSE IF \E i \in 1..Len(file) : IndexOffset(file, i) = offset
         THEN CHOOSE i \in 1..Len(file) : IndexOffset(file, i) = offset
         ELSE 0

\* --------------------------------------------------- the codec, in bytes
\* A byte is a number in 0..255 and a byte string a sequence of bytes.  The
\* engine above keeps only the lengths of what encode() writes; here encode and
\* decode are taken byte by byte, in the two variants the repository holds:
\* "binary" (encoding/binary, big endian) and "sonic" (sonic.Marshal).

\* encodeInt, binary: binary.BigEndian.PutUint64 into 8 bytes.  The numbers of
\* the model are below 2^32, so the four high bytes are 0.
encodeInt(x) == [i \in 1..IntWidth |-> IF i <= 4 THEN 0 ELSE (x \div (256 ^ (IntWidth - i))) % 256]

\* decodeInt, binary: binary.BigEndian.Uint64; a number of 2^32 or more is
\* reported as TooLong, more than any stream of the model holds
TooLong == 100000000

decodeInt(b) ==
    IF \E i \in 1..4 : b[i] # 0 THEN TooLong
    ELSE b[5] * (256 ^ 3) + b[6] * (256 ^ 2) + b[7] * 256 + b[8]

\* encodeInt, sonic: sonic.Marshal(x), the decimal digits of x in ASCII
RECURSIVE encodeIntSonic(_)
encodeIntSonic(x) ==
    IF x < 10 THEN <<48 + x>> ELSE encodeIntSonic(x \div 10) \o <<48 + (x % 10)>>

\* the number a sequence of ASCII digits spells
RECURSIVE DigitsValue(_, _)
DigitsValue(b, n) ==
    IF n = 0 THEN 0 ELSE DigitsValue(b, n - 1) * 10 + (b[n] - 48)

\* decodeInt, sonic: sonic.Unmarshal into an int.  The bytes must be a JSON
\* number without fraction or exponent, with JSON white space around it at
\* most; anything else makes decodeInt panic, reported as -1.
decodeIntSonic(b) ==
    LET Space == {9, 10, 13, 32}
        Ink == {i \in 1..Len(b) : b[i] \notin Space}
        Lo(S) == CHOOSE i \in S : \A j \in S : i <= j
        Hi(S) == CHOOSE i \in S : \A j \in S : i >= j
        Number(d) ==
            IF (\A i \in 1..Len(d) : d[i] \in 48..57) /\ (Len(d) = 1 \/ d[1] # 48)
            THEN DigitsValue(d, Len(d))
            ELSE -1
    IN  IF Ink = {} THEN -1 ELSE Number(SubSeq(b, Lo(Ink), Hi(Ink)))

\* encode: [stream, bytes]: what w received and the count encode returns
encode(variant, key, value) ==
    LET Written(encodedLen, keyLen) ==
            [stream |-> encodedLen \o keyLen \o key \o value,
             bytes  |-> Len(encodedLen) + Len(keyLen) + Len(key) + Len(value)]
    IN  IF variant = "binary"
        THEN Written(encodeInt(Len(encodeInt(Len(key))) + Len(key) + Len(value)),
                     encodeInt(Len(key)))
        ELSE Written(encodeIntSonic(8 + 8 + Len(key) + Len(value)), encodeIntSonic(Len(key)))

\* r.Read(buf) of an os.File at offset pos, for a buf of size bytes: the
\* bytes read, their number, and whether Read returned io.EOF
ReadAt(stream, pos, size) ==
    LET Got(n) ==
            [buf |-> SubSeq(stream, pos + 1, pos + n), n |-> n, eof |-> size > 0 /\ n = 0]
        Left(avail) == Got(IF avail < size THEN avail ELSE size)
    IN  Left(IF Len(stream) > pos THEN Len(stream) - pos ELSE 0)

\* a buffer of size bytes of which Read filled the first Len(b)
Padded(b, size) == b \o [i \in 1..(size - Len(b)) |-> 0]

\* decode of the reader r at offset 0: [key, value, nil, err, read]; nil says
\* that decode returned no value slice, read is the number of bytes taken from r
decode(variant, stream) ==
    LET AsInt(b) == IF variant = "binary" THEN decodeInt(b) ELSE decodeIntSonic(b)
        Out(k, v, isNil, e, n) ==
            [key |-> k, value |-> v, nil |-> isNil, err |-> e, read |-> n]
        Fail(e, n) == Out(<<>>, <<>>, TRUE, e, n)
        Split(entry, keyLen, n) ==
            IF keyLen < 0 \/ 8 + keyLen > Len(entry) THEN Fail("PANIC", n)
            ELSE Out(SubSeq(entry, 9, 8 + keyLen), SubSeq(entry, 9 + keyLen, Len(entry)),
                     8 + keyLen = Len(entry), "OK", n)
        Entry(entryLen, r, got) ==
            IF r.eof THEN Fail("EOF", got)
            ELSE IF r.n < entryLen THEN Fail("CORRUPT", got + r.n)
            ELSE IF entryLen < 8 THEN Fail("PANIC", got + r.n)
            ELSE Split(r.buf, AsInt(SubSeq(r.buf, 1, 8)), got + r.n)
        Body(entryLen, got) ==
            IF entryLen < 0 THEN Fail("PANIC", got)
            ELSE Entry(entryLen, ReadAt(stream, got, entryLen), got)
        Header(h) ==
            IF h.eof THEN Fail("EOF", 0) ELSE Body(AsInt(Padded(h.buf, 8)), h.n)
    IN  Header(ReadAt(stream, 0, 8))

\* ------------------------------------------------------------- skip list
\* A SkipList is modelled by its level-0 chain (data), num and size.  The
\* towers only shorten the walk: Insert, Search and Delete all end at the
\* first level-0 node whose key is >= the searched key.
NewSkipList == [data |-> <<>>, num |-> 0, size |-> 0]

\* the number of nodes the search walks past: those with key < searched key
SkipPast(data, key) == Cardinality({i \in 1..Len(data) : data[i][1] < key})

\* SkipList.Insert: always links a new node, before the nodes of equal key
SkipListInsert(s, key, value) ==
    LET p == SkipPast(s.data, key)
    IN  [data |-> SubSeq(s.data, 1, p) \o << <<key, value>> >>
                    \o SubSeq(s.data, p + 1, Len(s.data)),
         num  |-> s.num + 1,
         size |-> s.size + KeyLen(key) + ValLen(value)]

\* SkipList.Search: <<value, found>>
SkipListSearch(s, key) ==
    LET p == SkipPast(s.data, key) + 1
    IN  IF p <= Len(s.data) /\ s.data[p][1] = key
        THEN <<s.data[p][2], TRUE>>
        ELSE <<Nil, FALSE>>

\* SkipList.Delete: unlinks the first node of that key, if there is one
SkipListDelete(s, key) ==
    LET p == SkipPast(s.data, key) + 1
    IN  IF p <= Len(s.data) /\ s.data[p][1] = key
        THEN [data |-> SubSeq(s.data, 1, p - 1) \o SubSeq(s.data, p + 1, Len(s.data)),
              num  |-> s.num - 1,
              size |-> s.size - (KeyLen(key) + ValLen(s.data[p][2]))]
        ELSE s

\* ------------------------------------------------------------- memtable
\* The repository holds two memTable types: the one over SkipList, which
\* LSMTree is written against (NewSkipList, list.data.head), and the one over
\* rbytree.Tree.  Both are records [data, num, size]; for the rbytree one
\* data is the in-order content of the tree and num, size are its n and b.
newMemTable == NewSkipList

\* rbytree.Tree.Put(key, value): replaces the value of an existing key
TreePut(data, key, value) ==
    IF \E i \in 1..Len(data) : data[i][1] = key
    THEN [i \in 1..Len(data) |-> IF data[i][1] = key THEN <<key, value>> ELSE data[i]]
    ELSE LET p == SkipPast(data, key)
         IN  SubSeq(data, 1, p) \o << <<key, value>> >> \o SubSeq(data, p + 1, Len(data))

TreeHas(data, key) == \E i \in 1..Len(data) : data[i][1] = key

TreeValue(data, key) == data[CHOOSE i \in 1..Len(data) : data[i][1] = key][2]

\* memTable.put (rbytree variant)
TreeMemPut(mt, key, value) ==
    IF TreeHas(mt.data, key)
    THEN [data |-> TreePut(mt.data, key, value),
          num  |-> mt.num,
          size |-> mt.size - ValLen(TreeValue(mt.data, key)) + ValLen(value)]
    ELSE [data |-> TreePut(mt.data, key, value),
          num  |-> mt.num + 1,
          size |-> mt.size + KeyLen(key) + ValLen(value)]

\* memTable.delete (rbytree variant): stores nil as the value
TreeMemDelete(mt, key) ==
    IF TreeHas(mt.data, key)
    THEN [data |-> TreePut(mt.data, key, Nil),
          num  |-> mt.num - 1,
          size |-> mt.size - ValLen(TreeValue(mt.data, key))]
    ELSE [data |-> TreePut(mt.data, key, Nil),
          num  |-> mt.num,
          size |-> mt.size + KeyLen(key)]

\* memTable.get (rbytree variant): <<value, exists>>, exists also for nil
TreeMemGet(mt, key) ==
    IF TreeHas(mt.data, key) THEN <<TreeValue(mt.data, key), TRUE>> ELSE <<Nil, FALSE>>

\* memTable.put / get / delete / bytes of the build in use
memPut(variant, mt, key, value) ==
    IF variant = "skiplist" THEN SkipListInsert(mt, key, value)
    ELSE TreeMemPut(mt, key, value)

memGet(variant, mt, key) ==
    IF variant = "skiplist" THEN SkipListSearch(mt, key) ELSE TreeMemGet(mt, key)

memDelete(variant, mt, key) ==
    IF variant = "skiplist" THEN SkipListDelete(mt, key) ELSE TreeMemDelete(mt, key)

\* the mutant of memBytes that returns the number of entries (memTable.size)
memSize(mt) == mt.num

memBytes(mt) == mt.size

\* ------------------------------------------------------- files on disk
\* The directory is a function from the names of the files present to their
\* contents; a table file is named <<prefix, kind>>.
FileName(prefix, kind) == <<prefix, kind>>

TableKinds == <<"data", "index", "sparse">>

Exists(files, name) == name \in DOMAIN files

WriteFile(files, name, content) ==
    [n \in DOMAIN files \cup {name} |-> IF n = name THEN content ELSE files[n]]

RemoveFile(files, name) == [n \in DOMAIN files \ {name} |-> files[n]]

\* os.Rename: the new name takes the content, replacing a file of that name
RenameFile(files, old, new) ==
    [n \in (DOMAIN files \ {old}) \cup {new} |-> IF n = new THEN files[old] ELSE files[n]]

\* utils.GetFileSize of a data file
GetFileSize(files, name) == DataOffset(files[name], Len(files[name]) + 1)

\* --------------------------------------------------- on-disk table writer
\* newDiskTableWriter: three files opened with O_CREATE|O_TRUNC
newDiskTableWriter ==
    [data |-> <<>>, index |-> <<>>, sparse |-> <<>>,
     keyNum |-> 0, dataPos |-> 0, indexPos |-> 0]

\* the mutant of diskTableWriter.write whose sparse record carries dataPos
WriterWriteDataPos(w, key, value, sparseKeyDistance) ==
    [data    |-> Append(w.data, <<key, value>>),
     index   |-> Append(w.index, <<key, w.dataPos>>),
     sparse  |-> IF w.keyNum % sparseKeyDistance = 0
                 THEN Append(w.sparse, <<key, w.dataPos>>)
                 ELSE w.sparse,
     keyNum  |-> w.keyNum + 1,
     dataPos |-> w.dataPos + DataRecLen(<<key, value>>),
     indexPos |-> w.indexPos + IndexRecLen(<<key, w.dataPos>>)]

\* diskTableWriter.write
WriterWrite(w, key, value, sparseKeyDistance) ==
    [data    |-> Append(w.data, <<key, value>>),
     index   |-> Append(w.index, <<key, w.dataPos>>),
     sparse  |-> IF w.keyNum % sparseKeyDistance = 0
                 THEN Append(w.sparse, <<key, w.indexPos>>)
                 ELSE w.sparse,
     keyNum  |-> w.keyNum + 1,
     dataPos |-> w.dataPos + DataRecLen(<<key, value>>),
     indexPos |-> w.indexPos + IndexRecLen(<<key, w.dataPos>>)]

\* the loop of createDiskTable over memTable.iterator(), from entry i on
RECURSIVE WriteEntries(_, _, _, _)
WriteEntries(w, entries, i, sparseKeyDistance) ==
    IF i > Len(entries) THEN w
    ELSE WriteEntries(WriterWrite(w, entries[i][1], entries[i][2], sparseKeyDistance),
                      entries, i + 1, sparseKeyDistance)

\* the three files of a writer put into the directory under a prefix
StoreTable(files, prefix, w) ==
    WriteFile(WriteFile(WriteFile(files,
        FileName(prefix, "data"), w.data),
        FileName(prefix, "index"), w.index),
        FileName(prefix, "sparse"), w.sparse)

\* createDiskTable
createDiskTable(files, entries, index, sparseKeyDistance) ==
    StoreTable(files, index, WriteEntries(newDiskTableWriter, entries, 1, sparseKeyDistance))

\* --------------------------------------------------- on-disk table reader
\* searchInSparseIndex, from record i on: [from, to, ok]
RECURSIVE SparseScan(_, _, _, _)
SparseScan(file, key, i, from) ==
    IF i > Len(file) THEN [from |-> from, to |-> 0, ok |-> from # -1]
    ELSE IF file[i][1] = key THEN [from |-> file[i][2], to |-> file[i][2], ok |-> TRUE]
    ELSE IF file[i][1] < key THEN SparseScan(file, key, i + 1, file[i][2])
    ELSE IF from = -1 THEN [from |-> 0, to |-> 0, ok |-> FALSE]
    ELSE [from |-> from, to |-> file[i][2], ok |-> TRUE]

searchInSparseIndex(file, key) == SparseScan(file, key, 1, -1)

\* the mutant of IndexScan that compares the position with to also when to is
\* not above from
RECURSIVE IndexScanUnguarded(_, _, _, _, _)
IndexScanUnguarded(file, from, to, key, i) ==
    IF i = 0 THEN [offset |-> 0, ok |-> FALSE, err |-> "CORRUPT"]
    ELSE IF i > Len(file) THEN [offset |-> 0, ok |-> FALSE, err |-> "OK"]
    ELSE IF file[i][1] = key THEN [offset |-> file[i][2], ok |-> TRUE, err |-> "OK"]
    ELSE IF IndexOffset(file, i + 1) > to
         THEN [offset |-> 0, ok |-> FALSE, err |-> "OK"]
    ELSE IndexScanUnguarded(file, from, to, key, i + 1)

\* the loop of searchInIndex from record i on: [offset, ok, err]
RECURSIVE IndexScan(_, _, _, _, _)
IndexScan(file, from, to, key, i) ==
    IF i = 0 THEN [offset |-> 0, ok |-> FALSE, err |-> "CORRUPT"]
    ELSE IF i > Len(file) THEN [offset |-> 0, ok |-> FALSE, err |-> "OK"]
    ELSE IF file[i][1] = key THEN [offset |-> file[i][2], ok |-> TRUE, err |-> "OK"]
    ELSE IF to > from /\ IndexOffset(file, i + 1) > to
         THEN [offset |-> 0, ok |-> FALSE, err |-> "OK"]
    ELSE IndexScan(file, from, to, key, i + 1)

searchInIndex(file, from, to, key) == IndexScan(file, from, to, key, IndexSeek(file, from))

\* the loop of searchInDataFile from record i on: [value, ok, err]
RECURSIVE DataScan(_, _, _)
DataScan(file, key, i) ==
    IF i = 0 THEN [value |-> Nil, ok |-> FALSE, err |-> "CORRUPT"]
    ELSE IF i > Len(file) THEN [value |-> Nil, ok |-> FALSE, err |-> "OK"]
    ELSE IF file[i][1] = key THEN [value |-> file[i][2], ok |-> TRUE, err |-> "OK"]
    ELSE DataScan(file, key, i + 1)

searchInDataFile(file, offset, key) == DataScan(file, key, DataSeek(file, offset))

\* searchInDiskTable: [value, exists, err]; a file that cannot be opened is an error
searchInDiskTable(files, index, key) ==
    LET Out(v, ok, e) == [value |-> v, exists |-> ok, err |-> e]
        InData(d) ==
            IF d.err # "OK" THEN Out(Nil, FALSE, d.err) ELSE Out(d.value, d.ok, "OK")
        InIndex(x) ==
            IF x.err # "OK" THEN Out(Nil, FALSE, x.err)
            ELSE IF ~x.ok THEN Out(Nil, FALSE, "OK")
            ELSE IF ~Exists(files, FileName(index, "data")) THEN Out(Nil, FALSE, "IO")
            ELSE InData(searchInDataFile(files[FileName(index, "data")], x.offset, key))
        InSparse(r) ==
            IF ~r.ok THEN Out(Nil, FALSE, "OK")
            ELSE IF ~Exists(files, FileName(index, "index")) THEN Out(Nil, FALSE, "IO")
            ELSE InIndex(searchInIndex(files[FileName(index, "index")], r.from, r.to, key))
    IN  IF ~Exists(files, FileName(index, "sparse")) THEN Out(Nil, FALSE, "IO")
        ELSE InSparse(searchInSparseIndex(files[FileName(index, "sparse")], key))

\* searchInDiskTables: from maxIndex down to 0, the first table that has the
\* key; an error of a table ends the search
RECURSIVE searchInDiskTables(_, _, _)
searchInDiskTables(files, index, key) ==
    LET Table(r) ==
            IF r.err # "OK" \/ r.exists THEN r
            ELSE searchInDiskTables(files, index - 1, key)
    IN  IF index < 0 THEN [value |-> Nil, exists |-> FALSE, err |-> "OK"]
        ELSE Table(searchInDiskTable(files, index, key))

\* ------------------------------------------------------------------ merge
\* merge(aIt, bIt, w): i and j are the positions of the two dataFileIterators
RECURSIVE MergeLoop(_, _, _, _, _, _)
MergeLoop(a, b, i, j, w, skd) ==
    IF i > Len(a) /\ j > Len(b) THEN w
    ELSE IF i <= Len(a) /\ j <= Len(b)
    THEN IF a[i][1] = b[j][1]
         THEN MergeLoop(a, b, i + 1, j + 1, WriterWrite(w, b[j][1], b[j][2], skd), skd)
         ELSE IF a[i][1] > b[j][1]
         THEN MergeLoop(a, b, i, j + 1, WriterWrite(w, b[j][1], b[j][2], skd), skd)
         ELSE MergeLoop(a, b, i + 1, j, WriterWrite(w, a[i][1], a[i][2], skd), skd)
    ELSE IF i <= Len(a)
    THEN MergeLoop(a, b, i + 1, j, WriterWrite(w, a[i][1], a[i][2], skd), skd)
    ELSE MergeLoop(a, b, i, j + 1, WriterWrite(w, b[j][1], b[j][2], skd), skd)

\* the mutant of merge that takes the older table for the newer one
mergeOlderWins(a, b, sparseKeyDistance) ==
    MergeLoop(b, a, 1, 1, newDiskTableWriter, sparseKeyDistance)

merge(a, b, sparseKeyDistance) == MergeLoop(a, b, 1, 1, newDiskTableWriter, sparseKeyDistance)

\* -------------------------------------------------------------- the WAL
\* the mutant of appendToWAL that returns nil without writing the record
appendToWALSkipped(wal, key, value) == wal

\* appendToWAL: seek to the end, encode, fsync
appendToWAL(wal, key, value) == Append(wal, <<key, value>>)

\* clearWAL: close, reopen with O_TRUNC
clearWAL(wal) == <<>>

\* the replay loop of loadMemTable from record i on: decode gives a nil value
\* for a record without value bytes
RECURSIVE ReplayFrom(_, _, _, _)
ReplayFrom(variant, mt, wal, i) ==
    IF i > Len(wal) THEN mt
    ELSE ReplayFrom(variant,
                    IF wal[i][2] # Nil THEN memPut(variant, mt, wal[i][1], wal[i][2])
                    ELSE memDelete(variant, mt, wal[i][1]),
                    wal, i + 1)

loadMemTable(variant, wal) == ReplayFrom(variant, newMemTable, wal, 1)

\* updateDiskTableMeta / readDiskTableMeta: the file maxdisktable holds
\* encodeIntPair(num, max); no file reads as (0, -1)
updateDiskTableMeta(num, max) == <<num, max>>

readDiskTableMeta(meta) == IF meta = <<>> THEN <<0, NoDiskTable>> ELSE meta

\* ------------------------------------------------------------ the flush
\* merged.Insert in compactImmutableMemtable.  In the build over rbytree the
\* merged table is a tree, whose Put replaces the value of an existing key.
mergedInsert(variant, merged, key, value) ==
    IF variant = "skiplist" THEN SkipListInsert(merged, key, value)
    ELSE [merged EXCEPT !.data = TreePut(@, key, value)]

\* the inner loop of compactImmutableMemtable: one list, from node i on
RECURSIVE InsertAll(_, _, _, _)
InsertAll(variant, merged, data, i) ==
    IF i > Len(data) THEN merged
    ELSE InsertAll(variant, mergedInsert(variant, merged, data[i][1], data[i][2]), data, i + 1)

\* the outer loop of compactImmutableMemtable: the lists in slice order
RECURSIVE MergeImmutables(_, _, _, _)
MergeImmutables(variant, merged, tables, n) ==
    IF n > Len(tables) THEN merged
    ELSE MergeImmutables(variant, InsertAll(variant, merged, tables[n].data, 1), tables, n + 1)

\* flushMemTable: the directory after each of its steps, in order
FlushSteps(t, disk, entries) ==
    LET index == t.maxDiskTableIndex + 1
        d0 == [disk EXCEPT !.files = StoreTable(@, index, newDiskTableWriter)]
        d1 == [disk EXCEPT !.files = createDiskTable(@, entries, index, t.sparseKeyDistance)]
        d2 == [d1 EXCEPT !.meta = updateDiskTableMeta(t.diskTableNum + 1, index)]
        d3 == [d2 EXCEPT !.wal = clearWAL(@)]
    IN  << [at |-> "flush_begin", disk |-> d0],
           [at |-> "flush_table", disk |-> d1],
           [at |-> "flush_meta", disk |-> d2],
           [at |-> "flush_wal", disk |-> d3] >>

\* compactImmutableMemtable: [t, disk, steps]
compactImmutableMemtable(t, disk) ==
    LET Flushed(steps) ==
            [t |-> [t EXCEPT !.immutableMemtables = <<>>,
                             !.diskTableNum = @ + 1,
                             !.maxDiskTableIndex = @ + 1],
             disk |-> steps[Len(steps)].disk,
             steps |-> steps]
    IN  Flushed(FlushSteps(t, disk,
                           MergeImmutables(t.variant, NewSkipList, t.immutableMemtables, 1).data))

\* ------------------------------------------------------- the compaction
\* a list of os.Remove / os.Rename calls run in order from call i on: the
\* first call on a missing file fails and ends the list.  [files, err, steps]
RECURSIVE RunFileOps(_, _, _, _)
RunFileOps(files, ops, i, steps) ==
    IF i > Len(ops) THEN [files |-> files, err |-> "OK", steps |-> steps]
    ELSE IF ~Exists(files, ops[i].name) THEN [files |-> files, err |-> "IO", steps |-> steps]
    ELSE LET f == IF ops[i].op = "rm" THEN RemoveFile(files, ops[i].name)
                  ELSE RenameFile(files, ops[i].name, ops[i].to)
         IN  RunFileOps(f, ops, i + 1, Append(steps, [at |-> ops[i].at, files |-> f]))

\* deleteDiskTables(prefix): three removes
DeleteOps(prefix, last) ==
    << [op |-> "rm", name |-> FileName(prefix, "data"), to |-> <<>>, at |-> "merge_del"],
       [op |-> "rm", name |-> FileName(prefix, "index"), to |-> <<>>, at |-> "merge_del"],
       [op |-> "rm", name |-> FileName(prefix, "sparse"), to |-> <<>>, at |-> last] >>

\* renameDiskTable(oldPrefix, newPrefix): three renames
RenameOps(old, new, during, last) ==
    << [op |-> "mv", name |-> FileName(old, "data"), to |-> FileName(new, "data"), at |-> during],
       [op |-> "mv", name |-> FileName(old, "index"), to |-> FileName(new, "index"), at |-> during],
       [op |-> "mv", name |-> FileName(old, "sparse"), to |-> FileName(new, "sparse"), at |-> last] >>

\* mergeDiskTables(a, b): [files, err, steps]
mergeDiskTables(files, a, b, sparseKeyDistance) ==
    IF ~Exists(files, FileName(a, "data")) \/ ~Exists(files, FileName(b, "data"))
    THEN [files |-> files, err |-> "IO", steps |-> <<>>]
    ELSE LET f0 == StoreTable(files, MergePrefix, newDiskTableWriter)
             f1 == StoreTable(files, MergePrefix,
                              merge(files[FileName(a, "data")], files[FileName(b, "data")],
                                    sparseKeyDistance))
         IN  RunFileOps(f1,
                        DeleteOps(a, "merge_del") \o DeleteOps(b, "merge_deleted")
                          \o RenameOps(MergePrefix, b, "merge_ren", "merge_renamed"),
                        1,
                        << [at |-> "merge_begin", files |-> f0],
                           [at |-> "merge_written", files |-> f1] >>)

\* the mutant of CompactionScan that takes the first pair whatever its size
RECURSIVE CompactionScanAnySize(_, _, _, _)
CompactionScanAnySize(files, i, max, skipped) ==
    IF i >= max THEN [merged |-> FALSE, a |-> i, skipped |-> skipped]
    ELSE IF ~Exists(files, FileName(i, "data")) \/ ~Exists(files, FileName(i + 1, "data"))
    THEN CompactionScanAnySize(files, i + 1, max, skipped)
    ELSE [merged |-> TRUE, a |-> i, skipped |-> skipped]

\* Put's scan of the adjacent pairs from i on: the first pair within the size
\* ceiling, and the pairs skipped for their size (updateIndexMap, as the set of
\* their lower indices)
RECURSIVE CompactionScan(_, _, _, _)
CompactionScan(files, i, max, skipped) ==
    IF i >= max THEN [merged |-> FALSE, a |-> i, skipped |-> skipped]
    ELSE IF ~Exists(files, FileName(i, "data")) \/ ~Exists(files, FileName(i + 1, "data"))
    THEN CompactionScan(files, i + 1, max, skipped)
    ELSE IF GetFileSize(files, FileName(i, "data")) + GetFileSize(files, FileName(i + 1, "data"))
              > MergeSizeCeiling
    THEN CompactionScan(files, i + 1, max, skipped \cup {i})
    ELSE [merged |-> TRUE, a |-> i, skipped |-> skipped]

\* the orders in which `range updateIndexMap` may yield its entries
Orders(S) == {o \in [1..Cardinality(S) -> S] : \A x \in S : \E i \in DOMAIN o : o[i] = x}

\* the renameDiskTable calls of the skipped pairs, in the order the map yields them
RECURSIVE ShiftOps(_, _)
ShiftOps(order, i) ==
    IF i > Len(order) THEN <<>>
    ELSE RenameOps(order[i], order[i] + 1, "shift_ren", "shift_ren") \o ShiftOps(order, i + 1)

\* the compaction block of Put: [t, disk, err, steps]
Compaction(t, disk, order) ==
    LET At(d, s) ==
            [i \in 1..Len(s) |-> [at |-> s[i].at, disk |-> [d EXCEPT !.files = s[i].files]]]
        Shifted(d1, msteps, r) ==
            [t |-> IF r.err = "OK" THEN [t EXCEPT !.diskTableNum = @ - 1] ELSE t,
             disk |-> [d1 EXCEPT !.files = r.files],
             err |-> r.err,
             steps |-> msteps \o << [at |-> "merge_meta", disk |-> d1] >> \o At(d1, r.steps)]
        WithMeta(d1, msteps) ==
            Shifted(d1, msteps, RunFileOps(d1.files, ShiftOps(order, 1), 1, <<>>))
        Merged(m) ==
            IF m.err # "OK"
            THEN [t |-> t, disk |-> [disk EXCEPT !.files = m.files], err |-> m.err,
                  steps |-> At(disk, m.steps)]
            ELSE WithMeta([disk EXCEPT !.files = m.files,
                                       !.meta = updateDiskTableMeta(t.diskTableNum - 1,
                                                                    t.maxDiskTableIndex)],
                          At(disk, m.steps))
        Scanned(scan) ==
            IF ~scan.merged
            THEN [t |-> t, disk |-> disk, err |-> "COMPACTION_STUCK", steps |-> <<>>]
            ELSE Merged(mergeDiskTables(disk.files, scan.a, scan.a + 1, t.sparseKeyDistance))
    IN  Scanned(CompactionScan(disk.files, t.maxDiskTableIndex - t.diskTableNum + 1,
                               t.maxDiskTableIndex, {}))

\* the pairs Put's scan would skip in this state (the keys of updateIndexMap)
SkippedPairs(t, disk) ==
    CompactionScan(disk.files, t.maxDiskTableIndex - t.diskTableNum + 1,
                   t.maxDiskTableIndex, {}).skipped

\* --------------------------------------------------------------- state
VARIABLES
    t,       \* the LSMTree struct of the running process
    disk,    \* the database directory: [wal, meta, files]
    opened,  \* whether a process holds the directory open
    ret,     \* the last call: its arguments and what it returned
    env,     \* the inputs the clients draw from, and how many calls they make
    steps,   \* the number of Put and Delete calls made so far
    crashes, \* the number of times the process was killed inside a Put
    hist,    \* history of the calls, read only by the properties
    codec,   \* one encode / decode call pair: its inputs, the stream, the results
    conn,    \* the request handlers that run on the shared LSMTree at once
    io,      \* the position of a call run step by step, and what has reached stable storage
    ring     \* the HashRing of the client: keys, hashMap

vars == <<t, disk, opened, ret, env, steps, crashes, hist, codec, conn, io, ring>>

\* SearchInImmutableMemtable: the slice is walked from its first element, the
\* memtable frozen first
RECURSIVE SearchInImmutableMemtable(_, _, _, _)
SearchInImmutableMemtable(variant, tables, key, i) ==
    LET Table(r) ==
            IF r[2] THEN [value |-> r[1], exists |-> r[1] # Nil]
            ELSE SearchInImmutableMemtable(variant, tables, key, i + 1)
    IN  IF i > Len(tables) THEN [value |-> Nil, exists |-> FALSE]
        ELSE Table(memGet(variant, tables[i], key))

\* LSMTree.Get: [value, exists, err]
Get(tree, dir, key) ==
    LET Out(v, ok, e) == [value |-> v, exists |-> ok, err |-> e]
        OnDisk(d) ==
            IF d.err # "OK" THEN Out(Nil, FALSE, d.err) ELSE Out(d.value, d.exists, "OK")
        InImmutables(im) ==
            IF im.exists THEN Out(im.value, im.value # Nil, "OK")
            ELSE OnDisk(searchInDiskTables(dir.files, tree.maxDiskTableIndex, key))
        InMemTable(m) ==
            IF m[2] THEN Out(m[1], m[1] # Nil, "OK")
            ELSE InImmutables(SearchInImmutableMemtable(tree.variant, tree.immutableMemtables,
                                                        key, 1))
    IN  InMemTable(memGet(tree.variant, tree.memTable, key))

\* the mutant of PutCheck with the size bounds taken as exclusive
PutCheckExclusive(key, value) ==
    IF KeyLen(key) = 0 THEN "KEY_REQUIRED"
    ELSE IF KeyLen(key) >= MaxKeySize THEN "KEY_TOO_LARGE"
    ELSE IF ValLen(value) = 0 THEN "VALUE_REQUIRED"
    ELSE IF ValLen(value) >= MaxValueSize THEN "VALUE_TOO_LARGE"
    ELSE "OK"

\* the argument checks at the head of LSMTree.Put
PutCheck(key, value) ==
    IF KeyLen(key) = 0 THEN "KEY_REQUIRED"
    ELSE IF KeyLen(key) > MaxKeySize THEN "KEY_TOO_LARGE"
    ELSE IF ValLen(value) = 0 THEN "VALUE_REQUIRED"
    ELSE IF ValLen(value) > MaxValueSize THEN "VALUE_TOO_LARGE"
    ELSE "OK"

\* LSMTree.Put up to and including the flush: [t, disk, err, steps]
PutHead(tree, dir, key, value) ==
    LET Out(t1, d, e, s) == [t |-> t1, disk |-> d, err |-> e, steps |-> s]
        Flushed(d1, c) == Out(c.t, c.disk, "OK", << [at |-> "wal", disk |-> d1] >> \o c.steps)
        Frozen(d1, t1) ==
            IF Len(t1.immutableMemtables) >= t1.immutableMemtableMaxNum
            THEN Flushed(d1, compactImmutableMemtable(t1, d1))
            ELSE Out(t1, d1, "OK", << [at |-> "wal", disk |-> d1] >>)
        Inserted(d1, mt) ==
            Frozen(d1, IF memBytes(mt) >= tree.memTableThreshold
                       THEN [tree EXCEPT !.immutableMemtables = Append(@, mt),
                                         !.memTable = newMemTable]
                       ELSE [tree EXCEPT !.memTable = mt])
        Checked(e) ==
            IF e # "OK" THEN Out(tree, dir, e, <<>>)
            ELSE Inserted([dir EXCEPT !.wal = appendToWAL(@, key, value)],
                          memPut(tree.variant, tree.memTable, key, value))
    IN  Checked(PutCheck(key, value))

\* the mutant of NeedsCompaction that compacts only above the threshold
NeedsCompactionAbove(tree) == tree.diskTableNum > tree.diskTableNumThreshold

\* the test that opens the compaction block of Put
NeedsCompaction(tree) == tree.diskTableNum >= tree.diskTableNumThreshold

\* the orders the renames of the skipped pairs can take in this Put
PutOrders(tree, dir, key, value) ==
    LET After(h) ==
            IF h.err = "OK" /\ NeedsCompaction(h.t) THEN Orders(SkippedPairs(h.t, h.disk))
            ELSE {<<>>}
    IN  After(PutHead(tree, dir, key, value))

\* LSMTree.Put: [t, disk, err, steps]; steps are the directory states a kill
\* inside the call can leave behind
PutRun(tree, dir, key, value, order) ==
    LET Compacted(h, c) ==
            [t |-> c.t, disk |-> c.disk, err |-> c.err, steps |-> h.steps \o c.steps]
        After(h) ==
            IF h.err # "OK" \/ ~NeedsCompaction(h.t) THEN h
            ELSE Compacted(h, Compaction(h.t, h.disk, order))
    IN  After(PutHead(tree, dir, key, value))

\* the struct of no process: only the options are kept, for the next Open
NoProcess(tree) ==
    [tree EXCEPT !.memTable = newMemTable, !.immutableMemtables = <<>>,
                 !.maxDiskTableIndex = NoDiskTable, !.diskTableNum = 0]

\* what every key reads as
View(tree, dir) == [k \in AllKeys |-> Get(tree, dir, k)]

NoView == <<>>
NoPut == <<>>
NoRet == [op |-> "none", key |-> 0, arg |-> 0, err |-> "OK", value |-> Nil, exists |-> FALSE]
Returned(op, key, arg, err) ==
    [op |-> op, key |-> key, arg |-> arg, err |-> err, value |-> Nil, exists |-> FALSE]

AllDirty == [k \in AllKeys |-> FALSE]

\* ------------------------------------------------------------- actions
\* Put(key, value) that returns
Put(key, value) ==
    /\ opened
    /\ steps < env.maxSteps
    /\ \E order \in PutOrders(t, disk, key, value) :
         \E r \in {PutRun(t, disk, key, value, order)} :
             /\ t' = r.t
             /\ disk' = r.disk
             /\ ret' = Returned("put", key, value, r.err)
             /\ hist' = IF r.err \in {"KEY_REQUIRED", "KEY_TOO_LARGE",
                                      "VALUE_REQUIRED", "VALUE_TOO_LARGE"}
                        THEN [hist EXCEPT !.lastPut = NoPut, !.stop = "none",
                                          !.preView = NoView]
                        ELSE IF r.err = "OK"
                        THEN [hist EXCEPT !.last[key] = "put", !.value[key] = value,
                                          !.clean[key] = TRUE,
                                          !.pending = NoPut, !.lastPut = <<key, value>>,
                                          !.stop = "none", !.preView = NoView]
                        ELSE [hist EXCEPT !.pending = <<key, value>>, !.clean = AllDirty,
                                          !.onlyPuts = FALSE, !.lastPut = NoPut,
                                          !.stop = "none", !.preView = NoView]
    /\ steps' = steps + 1
    /\ UNCHANGED <<opened, env, crashes, codec, conn, io, ring>>

\* Put(key, value) during which the process is killed
PutCrash(key, value) ==
    /\ opened
    /\ steps < env.maxSteps
    /\ crashes < MaxCrashes
    /\ \E order \in PutOrders(t, disk, key, value) :
         \E r \in {PutRun(t, disk, key, value, order)} :
           \E i \in 1..Len(r.steps) :
               /\ disk' = r.steps[i].disk
               /\ hist' = [hist EXCEPT !.pending = <<key, value>>, !.clean = AllDirty,
                                       !.onlyPuts = FALSE, !.lastPut = NoPut,
                                       !.stop = r.steps[i].at, !.preView = NoView]
    /\ t' = NoProcess(t)
    /\ opened' = FALSE
    /\ ret' = NoRet
    /\ steps' = steps + 1
    /\ crashes' = crashes + 1
    /\ UNCHANGED <<env, codec, conn, io, ring>>

\* LSMTree.Delete
Delete(key) ==
    /\ opened
    /\ steps < env.maxSteps
    /\ disk' = [disk EXCEPT !.wal = appendToWAL(@, key, Nil)]
    /\ t' = [t EXCEPT !.memTable = memDelete(t.variant, @, key)]
    /\ ret' = Returned("delete", key, Nil, "OK")
    /\ hist' = [hist EXCEPT !.last[key] = "deleted", !.value[key] = Nil,
                            !.clean = [k \in AllKeys |-> k = key],
                            !.pending = NoPut, !.onlyPuts = FALSE, !.lastPut = NoPut,
                            !.stop = "none", !.preView = NoView]
    /\ steps' = steps + 1
    /\ UNCHANGED <<opened, env, crashes, codec, conn, io, ring>>

\* LSMTree.Get
GetCall(key) ==
    /\ opened
    /\ ret' = [op |-> "get", key |-> key, arg |-> 0] @@ Get(t, disk, key)
    /\ UNCHANGED <<t, disk, opened, env, steps, crashes, hist, codec, conn, io, ring>>

\* LSMTree.Close, after which the process ends
Close ==
    /\ opened
    /\ opened' = FALSE
    /\ t' = NoProcess(t)
    /\ ret' = NoRet
    /\ hist' = [hist EXCEPT !.clean = AllDirty, !.onlyPuts = FALSE, !.lastPut = NoPut,
                            !.stop = "close", !.preView = View(t, disk)]
    /\ UNCHANGED <<disk, env, steps, crashes, codec, conn, io, ring>>

\* the process is killed between two calls
Kill ==
    /\ opened
    /\ opened' = FALSE
    /\ t' = NoProcess(t)
    /\ ret' = NoRet
    /\ hist' = [hist EXCEPT !.clean = AllDirty, !.onlyPuts = FALSE,
                            !.stop = "kill", !.preView = View(t, disk)]
    /\ UNCHANGED <<disk, env, steps, crashes, codec, conn, io, ring>>

\* Open on the directory, with the options of the first Open
Open ==
    /\ ~opened
    /\ opened' = TRUE
    /\ t' = [t EXCEPT !.memTable = loadMemTable(t.variant, disk.wal),
                      !.immutableMemtables = <<>>,
                      !.diskTableNum = readDiskTableMeta(disk.meta)[1],
                      !.maxDiskTableIndex = readDiskTableMeta(disk.meta)[2]]
    /\ ret' = Returned("open", 0, 0, "OK")
    /\ hist' = [hist EXCEPT !.belowAtOpen =
                    readDiskTableMeta(disk.meta)[1] < t.diskTableNumThreshold]
    /\ UNCHANGED <<disk, env, steps, crashes, codec, conn, io, ring>>

\* the options the databases of the model are opened with:
\* <<memTableThreshold, immutableMemtableMaxNum, diskTableNumThreshold, sparseKeyDistance>>
\* (an option is any func(*LSMTree); Open's own immutableMemtableMaxNum is 4)
Options == { <<2, 1, 2, 2>>, <<2, 3, 2, 2>>, <<6, 1, 2, 1>> }

\* the LSMTree of Open on an empty directory
Fresh(variant, o) ==
    [variant |-> variant,
     memTable |-> newMemTable,
     immutableMemtables |-> <<>>,
     maxDiskTableIndex |-> NoDiskTable,
     diskTableNum |-> 0,
     memTableThreshold |-> o[1],
     immutableMemtableMaxNum |-> o[2],
     diskTableNumThreshold |-> o[3],
     sparseKeyDistance |-> o[4]]

\* no encode / decode call is looked at; no handler runs beside the caller
NoCodec == [at |-> "off"]
NoConns == <<>>

\* no call is followed step by step
NoIO == [pc |-> "off"]
\* no HashRing: the client is not part of the behaviour
NoRing == [at |-> "off"]

NoHist ==
    [last |-> [k \in AllKeys |-> "never"],
     value |-> [k \in AllKeys |-> Nil],
     pending |-> NoPut,
     clean |-> [k \in AllKeys |-> TRUE],
     onlyPuts |-> TRUE,
     lastPut |-> NoPut,
     stop |-> "none",
     preView |-> NoView,
     belowAtOpen |-> TRUE]

InitWith(variant, options, e) ==
    /\ \E o \in options : t = Fresh(variant, o)
    /\ disk = [wal |-> <<>>, meta |-> <<>>, files |-> <<>>]
    /\ opened = TRUE
    /\ ret = NoRet
    /\ env = e
    /\ steps = 0
    /\ crashes = 0
    /\ hist = NoHist
    /\ codec = NoCodec
    /\ conn = NoConns
    /\ io = NoIO
    /\ ring = NoRing

Init == InitWith("skiplist", Options, [keys |-> Keys, vals |-> Values, maxSteps |-> MaxSteps])

Next ==
    \/ \E k \in env.keys, v \in env.vals : Put(k, v)
    \/ \E k \in env.keys, v \in env.vals : PutCrash(k, v)
    \/ \E k \in env.keys : Delete(k)
    \/ \E k \in env.keys : GetCall(k)
    \/ Close
    \/ Kill
    \/ Open

\* the engine as built: LSMTree over the skip-list memtable
Spec == Init /\ [][Next]_vars

\* the same engine with inputs of every length class: empty, 1 byte, 65535
\* bytes and 65536 bytes
InitV ==
    InitWith("skiplist", { <<2, 2, 2, 2>> },
             [keys |-> LengthClasses, vals |-> LengthClasses, maxSteps |-> MaxStepsV])

SpecV == InitV /\ [][Next]_vars

\* the engine over the rbytree memtable of memtable.go, whose delete stores a
\* tombstone
InitRb ==
    InitWith("rbytree", { <<2, 1, 2, 2>>, <<2, 3, 2, 2>> },
             [keys |-> Keys, vals |-> Values, maxSteps |-> MaxSteps])

SpecRb == InitRb /\ [][Next]_vars

\* A database whose tables are large enough for Put's compaction scan to skip
\* pairs.  One record of a 65535-byte key and a 65535-byte value takes 131086
\* bytes of a data file and 131070 bytes of the memtable; with
\* memTableThreshold = 7 * 131070 + 1 a memtable is frozen at its 8th such
\* record, and two tables of 8 records together exceed the 2 MiB ceiling.
LargeOptions == <<917491, 1, 4, 1>>

\* the number of Puts of that record the database has taken: three tables of 8,
\* and 7 records in the memtable.  InitLarge also starts 8 Puts later: the first
\* of them flushed a fourth table of 8 records, no pair is within the ceiling,
\* and it and the 7 Puts after it returned the error of the compaction block.
LoadedPuts == 31

\* n Puts of the record <<3, 3>>, one after the other
RECURSIVE PutAll(_, _, _)
PutAll(tree, dir, n) ==
    LET Then(r) == PutAll(r.t, r.disk, n - 1)
    IN  IF n = 0 THEN [t |-> tree, disk |-> dir]
        ELSE Then(PutRun(tree, dir, 3, 3, <<>>))

InitLarge ==
    /\ \E l \in {PutAll(Fresh("skiplist", LargeOptions),
                        [wal |-> <<>>, meta |-> <<>>, files |-> <<>>], LoadedPuts)} :
         \E m \in {l, PutAll(l.t, l.disk, 8)} :
            t = m.t /\ disk = m.disk
    /\ opened = TRUE
    /\ ret = NoRet
    /\ env = [keys |-> {1, 3}, vals |-> {1, 3}, maxSteps |-> MaxStepsV]
    /\ steps = 0
    /\ crashes = 0
    /\ hist = NoHist
    /\ codec = NoCodec
    /\ conn = NoConns
    /\ io = NoIO
    /\ ring = NoRing

SpecLarge == InitLarge /\ [][Next]_vars

\* the engine with diskTableNumThreshold = 2, immutableMemtableMaxNum = 1 and a
\* memTableThreshold that every Put reaches, and clients that use three keys
InitRounds ==
    InitWith("skiplist", { <<2, 1, 2, 2>> },
             [keys |-> {1, 2, 3}, vals |-> Values, maxSteps |-> MaxSteps])

SpecRounds == InitRounds /\ [][Next]_vars

\* ------------------------------------- handlers of several connections
\* HandleSet and HandleGet run on the event loop of their connection (gnet
\* with multicore) and call Put and Get of the one LSMTree of the process.
\* A Put is taken statement by statement; t.mu is held only inside
\* compactImmutableMemtable.  conn.mu is the holder of t.mu (0: nobody),
\* conn.h[c] the position of the handler of connection c in its call.
Conns == 1..NumConns

IdleConn ==
    [pc |-> "idle", key |-> 0, value |-> 0, merged |-> <<>>, calls |-> 0,
     res |-> [op |-> "none", key |-> 0, arg |-> 0, err |-> "OK", value |-> Nil, exists |-> FALSE]]

InitConn ==
    /\ \E o \in { <<2, 1, 2, 2>>, <<2, 2, 2, 2>> } : t = Fresh("skiplist", o)
    /\ disk = [wal |-> <<>>, meta |-> <<>>, files |-> <<>>]
    /\ opened = TRUE
    /\ ret = NoRet
    /\ env = [keys |-> Keys, vals |-> {1}, maxSteps |-> NumConns * MaxConnOps]
    /\ steps = 0
    /\ crashes = 0
    /\ hist = NoHist
    /\ codec = NoCodec
    /\ conn = [mu |-> 0, h |-> [c \in Conns |-> IdleConn]]
    /\ io = NoIO
    /\ ring = NoRing

\* what a step of a handler leaves alone
ConnFrame == UNCHANGED <<opened, ret, env, crashes, hist, codec, io, ring>>

\* HandleSet -> Put: the argument checks and appendToWAL
ConnPut(c, key, value) ==
    /\ conn.h[c].pc = "idle" /\ conn.h[c].calls < MaxConnOps
    /\ IF PutCheck(key, value) # "OK"
       THEN /\ conn' = [conn EXCEPT !.h[c].calls = @ + 1,
                                    !.h[c].res = Returned("put", key, value,
                                                          PutCheck(key, value))]
            /\ UNCHANGED disk
       ELSE /\ conn' = [conn EXCEPT !.h[c].pc = "insert", !.h[c].key = key,
                                    !.h[c].value = value]
            /\ disk' = [disk EXCEPT !.wal = appendToWAL(@, key, value)]
    /\ steps' = steps + 1
    /\ UNCHANGED t
    /\ ConnFrame

\* t.memTable.put(key, value)
ConnInsert(c) ==
    /\ conn.h[c].pc = "insert"
    /\ t' = [t EXCEPT !.memTable = memPut(t.variant, @, conn.h[c].key, conn.h[c].value)]
    /\ conn' = [conn EXCEPT !.h[c].pc = "freeze"]
    /\ UNCHANGED <<disk, steps>>
    /\ ConnFrame

\* if t.memTable.bytes() >= t.memTableThreshold: append and refreshMemTable
ConnFreeze(c) ==
    /\ conn.h[c].pc = "freeze"
    /\ t' = IF memBytes(t.memTable) >= t.memTableThreshold
            THEN [t EXCEPT !.immutableMemtables = Append(@, t.memTable),
                           !.memTable = newMemTable]
            ELSE t
    /\ conn' = [conn EXCEPT !.h[c].pc = "trigger"]
    /\ UNCHANGED <<disk, steps>>
    /\ ConnFrame

\* if len(t.immutableMemtables) >= t.immutableMemtableMaxNum:
\* compactImmutableMemtable takes t.mu and merges the lists the slice holds now
ConnTrigger(c) ==
    /\ conn.h[c].pc = "trigger"
    /\ IF Len(t.immutableMemtables) >= t.immutableMemtableMaxNum
       THEN /\ conn.mu = 0
            /\ conn' = [conn EXCEPT !.mu = c, !.h[c].pc = "flush",
                                    !.h[c].merged =
                                        MergeImmutables(t.variant, NewSkipList,
                                                        t.immutableMemtables, 1).data]
       ELSE conn' = [conn EXCEPT !.h[c].pc = "compact"]
    /\ UNCHANGED <<t, disk, steps>>
    /\ ConnFrame

\* t.flushMemTable(&memTable{data: merged})
ConnFlush(c) ==
    /\ conn.h[c].pc = "flush"
    /\ \E f \in {FlushSteps(t, disk, conn.h[c].merged)} : disk' = f[Len(f)].disk
    /\ t' = [t EXCEPT !.diskTableNum = @ + 1, !.maxDiskTableIndex = @ + 1]
    /\ conn' = [conn EXCEPT !.h[c].pc = "clear"]
    /\ UNCHANGED steps
    /\ ConnFrame

\* t.immutableMemtables = []*memTable{} and the deferred t.mu.Unlock()
ConnClear(c) ==
    /\ conn.h[c].pc = "clear"
    /\ t' = [t EXCEPT !.immutableMemtables = <<>>]
    /\ conn' = [conn EXCEPT !.mu = 0, !.h[c].pc = "compact", !.h[c].merged = <<>>]
    /\ UNCHANGED <<disk, steps>>
    /\ ConnFrame

\* the compaction block of Put, and its return
ConnCompact(c) ==
    /\ conn.h[c].pc = "compact"
    /\ IF NeedsCompaction(t)
       THEN \E order \in Orders(SkippedPairs(t, disk)) :
              \E r \in {Compaction(t, disk, order)} :
                 /\ t' = r.t
                 /\ disk' = r.disk
                 /\ conn' = [conn EXCEPT !.h[c].pc = "idle", !.h[c].calls = @ + 1,
                                         !.h[c].res = Returned("put", conn.h[c].key,
                                                               conn.h[c].value, r.err)]
       ELSE /\ UNCHANGED <<t, disk>>
            /\ conn' = [conn EXCEPT !.h[c].pc = "idle", !.h[c].calls = @ + 1,
                                    !.h[c].res = Returned("put", conn.h[c].key,
                                                          conn.h[c].value, "OK")]
    /\ UNCHANGED steps
    /\ ConnFrame

\* HandleGet -> Get
ConnGet(c, key) ==
    /\ conn.h[c].pc = "idle" /\ conn.h[c].calls < MaxConnOps
    /\ conn' = [conn EXCEPT !.h[c].calls = @ + 1,
                            !.h[c].res = [op |-> "get", key |-> key, arg |-> 0]
                                             @@ Get(t, disk, key)]
    /\ steps' = steps + 1
    /\ UNCHANGED <<t, disk>>
    /\ ConnFrame

NextConn ==
    \/ \E c \in Conns, k \in env.keys, v \in env.vals : ConnPut(c, k, v)
    \/ \E c \in Conns : ConnInsert(c)
    \/ \E c \in Conns : ConnFreeze(c)
    \/ \E c \in Conns : ConnTrigger(c)
    \/ \E c \in Conns : ConnFlush(c)
    \/ \E c \in Conns : ConnClear(c)
    \/ \E c \in Conns : ConnCompact(c)
    \/ \E c \in Conns, k \in env.keys : ConnGet(c, k)

SpecConn == InitConn /\ [][NextConn]_vars

\* ------------------------------------------------- encode / decode alone
\* the bytes keys and values are made of: '1' and 'a'
CodecBytes == {49, 97}

ByteStrings(lo, hi) == UNION {[1..n -> CodecBytes] : n \in lo..hi}

\* what follows the record in the file: nothing, or the record of ("1", "1")
Following(variant) == {<<>>, encode(variant, <<49>>, <<49>>).stream}

InitCodec ==
    /\ \E variant \in {"binary", "sonic"} :
         \E key \in ByteStrings(1, MaxKeyBytes), value \in ByteStrings(0, MaxValueBytes) :
           \E rest \in Following(variant) :
              codec = [at |-> "input", variant |-> variant, key |-> key, value |-> value,
                       rest |-> rest, stream |-> <<>>, bytes |-> 0, out |-> <<>>]
    /\ t = Fresh("skiplist", <<2, 1, 2, 2>>)
    /\ disk = [wal |-> <<>>, meta |-> <<>>, files |-> <<>>]
    /\ opened = FALSE
    /\ ret = NoRet
    /\ env = [keys |-> {}, vals |-> {}, maxSteps |-> 0]
    /\ steps = 0
    /\ crashes = 0
    /\ hist = NoHist
    /\ conn = NoConns
    /\ io = NoIO
    /\ ring = NoRing

\* encode(key, value, w) on a file that the rest then follows
EncodeCall ==
    /\ codec.at = "input"
    /\ \E e \in {encode(codec.variant, codec.key, codec.value)} :
          codec' = [codec EXCEPT !.at = "encoded", !.stream = e.stream \o codec.rest,
                                 !.bytes = e.bytes]
    /\ UNCHANGED <<t, disk, opened, ret, env, steps, crashes, hist, conn, io, ring>>

\* decode(r) on that file, from its start
DecodeCall ==
    /\ codec.at = "encoded"
    /\ codec' = [codec EXCEPT !.at = "decoded", !.out = decode(codec.variant, codec.stream)]
    /\ UNCHANGED <<t, disk, opened, ret, env, steps, crashes, hist, conn, io, ring>>

NextCodec == EncodeCall \/ DecodeCall

SpecCodec == InitCodec /\ [][NextCodec]_vars

\* the scan of the compaction block in the state h that Put has reached
ScanOf(h) ==
    CompactionScan(h.disk.files, h.t.maxDiskTableIndex - h.t.diskTableNum + 1,
                   h.t.maxDiskTableIndex, {})

\* ------------------------------------------- a call, one I/O step at a time
\* Put and Delete followed through their file operations, each of which can
\* fail, and the machine followed through a power failure.  io.stable is what
\* has reached stable storage: a file's content gets there by File.Sync (the
\* table files in diskTableWriter.sync, the WAL in appendToWAL); os.WriteFile
\* and the O_TRUNC of clearWAL change the file without a Sync, and so does the
\* writer of mergeDiskTables, which is neither synced nor closed.  Creating,
\* renaming and removing a file are taken as durable at once.
IdleIO(dir) ==
    [pc |-> "idle", op |-> "none", key |-> 0, value |-> 0, failed |-> "none",
     stable |-> dir]

InitIO ==
    /\ \E o \in Options \cup {<<4, 1, 2, 2>>} : t = Fresh("skiplist", o)
    /\ disk = [wal |-> <<>>, meta |-> <<>>, files |-> <<>>]
    /\ opened = TRUE
    /\ ret = NoRet
    /\ env = [keys |-> Keys, vals |-> {1}, maxSteps |-> MaxSteps]
    /\ steps = 0
    /\ crashes = 0
    /\ hist = NoHist
    /\ codec = NoCodec
    /\ conn = NoConns
    /\ io = IdleIO(disk)
    /\ ring = NoRing

IOFrame == UNCHANGED <<opened, env, crashes, hist, codec, conn, ring>>

\* what the step returns to the caller of the call in progress
IOReturn(err, stage, stable) ==
    /\ ret' = Returned(io.op, io.key, io.value, err)
    /\ io' = [io EXCEPT !.pc = "idle", !.failed = stage, !.stable = stable]

\* Put is entered: the size checks
IOPut(key, value) ==
    /\ opened
    /\ io.pc = "idle"
    /\ steps < env.maxSteps
    /\ steps' = steps + 1
    /\ IF PutCheck(key, value) # "OK"
       THEN /\ ret' = Returned("put", key, value, PutCheck(key, value))
            /\ io' = [io EXCEPT !.failed = "none"]
       ELSE /\ ret' = NoRet
            /\ io' = [io EXCEPT !.pc = "called", !.op = "put", !.key = key,
                                !.value = value, !.failed = "none"]
    /\ UNCHANGED <<t, disk>>
    /\ IOFrame

\* Delete is entered
IODelete(key) ==
    /\ opened
    /\ io.pc = "idle"
    /\ steps < env.maxSteps
    /\ steps' = steps + 1
    /\ ret' = NoRet
    /\ io' = [io EXCEPT !.pc = "called", !.op = "delete", !.key = key, !.value = Nil,
                        !.failed = "none"]
    /\ UNCHANGED <<t, disk>>
    /\ IOFrame

\* appendToWAL returns nil: Seek, encode into the file, Sync
IOAppend ==
    /\ io.pc = "called"
    /\ disk' = [disk EXCEPT !.wal = appendToWAL(@, io.key, io.value)]
    /\ io' = [io EXCEPT !.pc = "logged", !.stable.wal = disk'.wal]
    /\ UNCHANGED <<t, ret, steps>>
    /\ IOFrame

\* appendToWAL returns an error: of Seek or of the Write of encode (nothing
\* is added to the file), or of Sync (the record is in the file, not yet on
\* stable storage); Put and Delete return it
IOAppendFails(stage) ==
    /\ io.pc = "called"
    /\ disk' = IF stage = "sync" THEN [disk EXCEPT !.wal = appendToWAL(@, io.key, io.value)]
               ELSE disk
    /\ IOReturn("IO", stage, io.stable)
    /\ UNCHANGED <<t, steps>>
    /\ IOFrame

\* t.memTable.put and the freeze of Put; t.memTable.delete of Delete, which
\* then returns
IOInsert ==
    /\ io.pc = "logged"
    /\ IF io.op = "delete"
       THEN /\ t' = [t EXCEPT !.memTable = memDelete(t.variant, @, io.key)]
            /\ IOReturn("OK", "none", io.stable)
       ELSE /\ \E mt \in {memPut(t.variant, t.memTable, io.key, io.value)} :
                  t' = IF memBytes(mt) >= t.memTableThreshold
                       THEN [t EXCEPT !.immutableMemtables = Append(@, mt),
                                      !.memTable = newMemTable]
                       ELSE [t EXCEPT !.memTable = mt]
            /\ io' = [io EXCEPT !.pc = IF Len(t'.immutableMemtables) >= t.immutableMemtableMaxNum
                                       THEN "flush" ELSE "compact"]
            /\ ret' = ret
    /\ UNCHANGED <<disk, steps>>
    /\ IOFrame

\* createDiskTable returns nil: the writer's files are written, synced, closed
IOCreateTable ==
    /\ io.pc = "flush"
    /\ disk' = [disk EXCEPT !.files =
                   createDiskTable(@, MergeImmutables(t.variant, NewSkipList,
                                                      t.immutableMemtables, 1).data,
                                   t.maxDiskTableIndex + 1, t.sparseKeyDistance)]
    /\ io' = [io EXCEPT !.pc = "table", !.stable.files = disk'.files]
    /\ UNCHANGED <<t, ret, steps>>
    /\ IOFrame

\* createDiskTable returns an error of write or sync: the three files are
\* there, without the records; flushMemTable, compactImmutableMemtable and Put
\* return it
IOCreateTableFails ==
    /\ io.pc = "flush"
    /\ disk' = [disk EXCEPT !.files = StoreTable(@, t.maxDiskTableIndex + 1, newDiskTableWriter)]
    /\ IOReturn("IO", "table", [io.stable EXCEPT !.files = disk'.files])
    /\ UNCHANGED <<t, steps>>
    /\ IOFrame

\* updateDiskTableMeta returns nil: os.WriteFile, no Sync
IOUpdateMeta ==
    /\ io.pc = "table"
    /\ disk' = [disk EXCEPT !.meta = updateDiskTableMeta(t.diskTableNum + 1,
                                                         t.maxDiskTableIndex + 1)]
    /\ io' = [io EXCEPT !.pc = "meta"]
    /\ UNCHANGED <<t, ret, steps>>
    /\ IOFrame

\* updateDiskTableMeta returns an error (the file could not be opened)
IOUpdateMetaFails ==
    /\ io.pc = "table"
    /\ IOReturn("IO", "meta", io.stable)
    /\ UNCHANGED <<t, disk, steps>>
    /\ IOFrame

\* clearWAL returns the truncated file; flushMemTable advances diskTableNum and
\* maxDiskTableIndex, compactImmutableMemtable empties the list
IOClearWAL ==
    /\ io.pc = "meta"
    /\ disk' = [disk EXCEPT !.wal = clearWAL(@)]
    /\ t' = [t EXCEPT !.immutableMemtables = <<>>,
                      !.diskTableNum = @ + 1,
                      !.maxDiskTableIndex = @ + 1]
    /\ io' = [io EXCEPT !.pc = "compact"]
    /\ UNCHANGED <<ret, steps>>
    /\ IOFrame

\* clearWAL returns an error (of Close)
IOClearWALFails ==
    /\ io.pc = "meta"
    /\ IOReturn("IO", "truncate", io.stable)
    /\ UNCHANGED <<t, disk, steps>>
    /\ IOFrame

\* the compaction block of Put, and its return
IOCompact ==
    /\ io.pc = "compact"
    /\ IF NeedsCompaction(t)
       THEN \E order \in Orders(SkippedPairs(t, disk)) :
              \E c \in {Compaction(t, disk, order)} :
                  /\ t' = c.t
                  /\ disk' = c.disk
                  /\ IOReturn(c.err, "none",
                              [io.stable EXCEPT !.files =
                                   IF c.disk.files = disk.files THEN @
                                   ELSE StoreTable(c.disk.files, ScanOf([t |-> t, disk |-> disk]).a + 1,
                                                   newDiskTableWriter)])
       ELSE /\ UNCHANGED <<t, disk>>
            /\ IOReturn("OK", "none", io.stable)
    /\ UNCHANGED steps
    /\ IOFrame

\* the power fails: the process is gone, and of each file changed without a
\* Sync either the new or the old content is found afterwards
PowerLoss ==
    /\ opened
    /\ crashes < MaxCrashes
    /\ \E w \in {disk.wal, io.stable.wal}, m \in {disk.meta, io.stable.meta},
          f \in {disk.files, io.stable.files} :
           disk' = [wal |-> w, meta |-> m, files |-> f]
    /\ io' = IdleIO(disk')
    /\ t' = NoProcess(t)
    /\ opened' = FALSE
    /\ ret' = NoRet
    /\ crashes' = crashes + 1
    /\ UNCHANGED <<env, steps, hist, codec, conn, ring>>

NextIO ==
    \/ \E k \in env.keys, v \in env.vals : IOPut(k, v)
    \/ \E k \in env.keys : IODelete(k)
    \/ IOAppend
    \/ \E stage \in {"seek", "write", "sync"} : IOAppendFails(stage)
    \/ IOInsert
    \/ IOCreateTable
    \/ IOCreateTableFails
    \/ IOUpdateMeta
    \/ IOUpdateMetaFails
    \/ IOClearWAL
    \/ IOClearWALFails
    \/ IOCompact
    \/ PowerLoss
    \/ Open

\* Put and Delete with failing file operations and power failures
SpecIO == InitIO /\ [][NextIO]_vars

\* ------------------------------------- two tables, merged and searched
\* ids of keys that Put accepts (id 4 is the key of MaxKeySize + 1 bytes)
TableKeys == (1..(MaxTableKeys + 1)) \ {4}

\* the data file that holds the keys f does not leave out, ascending, each
\* once, with the value v or, for a deleted key, the empty value the tree
\* memtable is flushed with
RECURSIVE EntriesFrom(_, _, _)
EntriesFrom(f, k, v) ==
    IF k > MaxTableKeys + 1 THEN <<>>
    ELSE IF k \notin DOMAIN f \/ f[k] = "absent" THEN EntriesFrom(f, k + 1, v)
    ELSE << <<k, IF f[k] = "live" THEN v ELSE Nil>> >> \o EntriesFrom(f, k + 1, v)

TablesOf(v) == {EntriesFrom(f, 1, v) : f \in [TableKeys -> {"absent", "live", "dead"}]}

\* a directory with table 0 (values 1) and the younger table 1 (values 2),
\* written by createDiskTable
InitTables ==
    /\ \E d \in 1..MaxDistance :
         /\ t = [Fresh("rbytree", <<2, 1, 2, d>>) EXCEPT !.diskTableNum = 2,
                                                         !.maxDiskTableIndex = 1]
         /\ \E a \in TablesOf(1), b \in TablesOf(2) :
              disk = [wal |-> <<>>,
                      meta |-> updateDiskTableMeta(2, 1),
                      files |-> createDiskTable(createDiskTable(<<>>, a, 0, d), b, 1, d)]
    /\ opened = TRUE
    /\ ret = NoRet
    /\ env = [keys |-> TableKeys, vals |-> {}, maxSteps |-> 0]
    /\ steps = 0
    /\ crashes = 0
    /\ hist = NoHist
    /\ codec = NoCodec
    /\ conn = NoConns
    /\ io = NoIO
    /\ ring = NoRing

\* mergeDiskTables(dbDir, 0, 1, sparseKeyDistance)
MergeTables ==
    /\ Exists(disk.files, FileName(0, "data"))
    /\ \E r \in {mergeDiskTables(disk.files, 0, 1, t.sparseKeyDistance)} :
          /\ disk' = [disk EXCEPT !.files = r.files]
          /\ ret' = Returned("merge", 0, 1, r.err)
    /\ UNCHANGED <<t, opened, env, steps, crashes, hist, codec, conn, io, ring>>

\* searchInDiskTable(dbDir, index, key)
SearchTable(index, key) ==
    /\ Exists(disk.files, FileName(index, "data"))
    /\ ret' = [op |-> "search", key |-> key, arg |-> index]
                  @@ searchInDiskTable(disk.files, index, key)
    /\ UNCHANGED <<t, disk, opened, env, steps, crashes, hist, codec, conn, io, ring>>

NextTables ==
    \/ MergeTables
    \/ \E index \in {0, 1}, k \in env.keys : SearchTable(index, k)

\* tables as the writer leaves them, under the merge and the lookup
SpecTables == InitTables /\ [][NextTables]_vars

\* ---------------------------------------------------------- properties
\* Get found the value v
Hit(v) == [value |-> v, exists |-> TRUE, err |-> "OK"]

\* the sequence of records `data` has a record of key k
Holds(data, k) == \E i \in 1..Len(data) : data[i][1] = k

\* Get(k) returns a value whose Put was acknowledged last for k, or the value
\* of the Put to k that the process died in
ReadsAcked(k) ==
    LET g == Get(t, disk, k)
    IN  /\ g.err = "OK"
        /\ g.exists
        /\ (g.value = hist.value[k] \/ hist.pending = <<k, g.value>>)

\* C1: after a successful Put(K, V) and then only successful Puts to other
\* keys, Get(K) returns (V, true) and no error.
C1_PutGetRoundTrip ==
    \A k \in AllKeys :
        (opened /\ hist.last[k] = "put" /\ hist.clean[k])
            => Get(t, disk, k) = Hit(hist.value[k])

\* C2: after Delete(K) and then only successful Puts to other keys, Get(K)
\* returns present = false.
C2_DeleteHides ==
    \A k \in AllKeys :
        (opened /\ hist.last[k] = "deleted" /\ hist.clean[k])
            => ~Get(t, disk, k).exists

\* C3: in a history of successful Puts only, Get(K) returns the value of the
\* last Put to K.
C3_NewestWins ==
    \A k \in AllKeys :
        (opened /\ hist.onlyPuts /\ hist.last[k] = "put")
            => Get(t, disk, k) = Hit(hist.value[k])

\* C4: when the process is killed right after a successful Put(K, V) and the
\* directory is opened again, Get(K) returns (V, true).
C4_DurablePut ==
    (opened /\ hist.stop = "kill" /\ hist.lastPut # NoPut)
        => Get(t, disk, hist.lastPut[1]) = Hit(hist.lastPut[2])

\* K is in no memtable and in no data file of the table indices 0..max
KeyNowhere(k) ==
    /\ ~Holds(t.memTable.data, k)
    /\ \A i \in 1..Len(t.immutableMemtables) : ~Holds(t.immutableMemtables[i].data, k)
    /\ \A i \in 0..t.maxDiskTableIndex :
           Exists(disk.files, FileName(i, "data")) => ~Holds(disk.files[FileName(i, "data")], k)

\* C5: Get of a key that is in no memtable and in no on-disk table returns
\* present = false and no error, also after a merge has removed a lower table
\* (stated for the runs in which no process was killed inside a Put).
C5_AbsentKeyNoError ==
    \A k \in AllKeys :
        (opened /\ crashes = 0 /\ KeyNowhere(k))
            => (~Get(t, disk, k).exists /\ Get(t, disk, k).err = "OK")

FlushPoints == {"flush_begin", "flush_table", "flush_meta", "flush_wal"}

\* the directory without the table files of an index above maxDiskTableIndex
WithoutOrphans(dir) ==
    [dir EXCEPT !.files =
        [n \in {m \in DOMAIN dir.files : m[1] <= t.maxDiskTableIndex} |-> dir.files[n]]]

\* C6: after a kill inside a flush and an Open, every key whose latest call
\* was an acknowledged Put reads as that value, and a table above the recorded
\* maxDiskTableIndex has no part in any Get.
C6_FlushCrashSafe ==
    (opened /\ hist.stop \in FlushPoints)
        => /\ \A k \in AllKeys : hist.last[k] = "put" => ReadsAcked(k)
           /\ \A k \in AllKeys : Get(t, disk, k) = Get(t, WithoutOrphans(disk), k)

MergePoints ==
    {"merge_begin", "merge_written", "merge_del", "merge_deleted", "merge_ren", "merge_renamed"}

\* C7: after a kill inside a pairwise merge and an Open, every key whose latest
\* call was an acknowledged Put reads as that value and no Get returns an error.
C7_MergeCrashSafe ==
    (opened /\ hist.stop \in MergePoints)
        => /\ \A k \in AllKeys : hist.last[k] = "put" => ReadsAcked(k)
           /\ \A k \in AllKeys : Get(t, disk, k).err = "OK"

\* C8: after a kill between calls (or Close) and an Open, every key reads as
\* it read just before the process ended.
C8_ReplayKeepsView ==
    (opened /\ hist.stop \in {"kill", "close"})
        => \A k \in AllKeys :
              /\ Get(t, disk, k).exists = hist.preView[k].exists
              /\ Get(t, disk, k).value = hist.preView[k].value

\* the containers of the lookup ladder, newest first: the mutable memtable, the
\* immutable memtables from the one frozen last, the tables from maxDiskTableIndex down
Ladder ==
    << t.memTable.data >>
    \o [i \in 1..Len(t.immutableMemtables) |->
           t.immutableMemtables[Len(t.immutableMemtables) + 1 - i].data]
    \o [i \in 1..(t.maxDiskTableIndex + 1) |->
           IF Exists(disk.files, FileName(t.maxDiskTableIndex + 1 - i, "data"))
           THEN disk.files[FileName(t.maxDiskTableIndex + 1 - i, "data")]
           ELSE <<>>]

\* the newest occurrence of k in ladder order is a tombstone
NewestIsTombstone(k) ==
    LET First(S) == CHOOSE i \in S : \A j \in S : i <= j
        FirstOf(c) == c[First({i \in 1..Len(c) : c[i][1] = k})][2]
        Newest(ladder) == FirstOf(ladder[First({i \in 1..Len(ladder) : Holds(ladder[i], k)})])
        In(ladder) == (\E i \in 1..Len(ladder) : Holds(ladder[i], k)) /\ Newest(ladder) = Nil
    IN  In(Ladder)

\* C9: when the newest occurrence of K in ladder order is a tombstone, Get(K)
\* returns present = false and no value of K.
C9_TombstoneEndsLookup ==
    \A k \in AllKeys :
        (opened /\ NewestIsTombstone(k))
            => (~Get(t, disk, k).exists /\ Get(t, disk, k).value = Nil)

ValidationErrors == {"KEY_REQUIRED", "KEY_TOO_LARGE", "VALUE_REQUIRED", "VALUE_TOO_LARGE"}

\* the error the statement names for a key / a value of that length
KeyError(len) ==
    IF len = 0 THEN "KEY_REQUIRED" ELSE IF len > 65535 THEN "KEY_TOO_LARGE" ELSE "OK"
ValueError(len) ==
    IF len = 0 THEN "VALUE_REQUIRED" ELSE IF len > 65535 THEN "VALUE_TOO_LARGE" ELSE "OK"

\* what a Put returned, against the lengths of its arguments
PutCodes ==
    ret.op = "put" =>
        LET ke == KeyError(KeyLen(ret.key))
            ve == ValueError(ValLen(ret.arg))
        IN  /\ (ke # "OK" /\ ve = "OK") => ret.err = ke
            /\ (ke = "OK" /\ ve # "OK") => ret.err = ve
            /\ (ke # "OK" /\ ve # "OK") => ret.err \in {ke, ve}
            /\ (ke = "OK" /\ ve = "OK") => ret.err \notin ValidationErrors

\* a rejected Put changes neither the struct nor the directory; a Put that
\* returns success has appended its record to the WAL (which a flush in the
\* same call then truncates)
PutEffects ==
    /\ (ret'.op = "put" /\ ret'.err \in ValidationErrors) => UNCHANGED <<t, disk>>
    /\ (ret'.op = "put" /\ ret'.err = "OK")
           => \/ disk'.wal = Append(disk.wal, <<ret'.key, ret'.arg>>)
              \/ disk'.wal = <<>>

\* C10: Put with an empty key fails with KEY_REQUIRED, with a key above 65535
\* bytes with KEY_TOO_LARGE, with an empty value with VALUE_REQUIRED, with a
\* value above 65535 bytes with VALUE_TOO_LARGE (when both arguments are bad,
\* with the error of one of them); a rejected Put changes nothing; keys and
\* values of 1 and of 65535 bytes are not rejected.
C10_PutValidation == []PutCodes /\ [][PutEffects]_vars

\* a Put of a key of exactly 65535 bytes, rejected for its value, on a
\* database whose WAL holds records
C10_Witness ==
    /\ ret.op = "put"
    /\ KeyLen(ret.key) = 65535
    /\ ret.err = "VALUE_TOO_LARGE"
    /\ disk.wal # <<>>

\* the indices i >= 0 whose data, index and sparse files are all in the directory
TableTriples(files) ==
    {i \in {n[1] : n \in DOMAIN files} :
        i >= 0 /\ \A j \in 1..3 : Exists(files, FileName(i, TableKinds[j]))}

\* the keys of the records go strictly up
StrictlyAscending(data) == \A i \in 1..(Len(data) - 1) : data[i][1] < data[i + 1][1]

\* C11: in every data file written by a flush or by a pairwise merge the keys
\* are in strictly ascending order, so every key is there at most once.
C11_TablesSortedUnique ==
    \A n \in DOMAIN disk.files : n[2] = "data" => StrictlyAscending(disk.files[n])

\* the count held by the struct and the count stored in maxdisktable both equal
\* the number of table triples in the directory
MetaCount ==
    (opened /\ crashes = 0)
        => /\ t.diskTableNum = Cardinality(TableTriples(disk.files))
           /\ readDiskTableMeta(disk.meta)[1] = t.diskTableNum

MaxIndexMonotone == (opened /\ opened') => t'.maxDiskTableIndex >= t.maxDiskTableIndex

\* C12: between operations (of runs in which no process was killed inside a
\* Put) diskTableNum, in the struct and in maxdisktable, is the number of table
\* triples in the directory, and maxDiskTableIndex never goes down while the
\* database is open; also after a merge that skipped and renamed lower pairs.
C12_MetaInvariant == []MetaCount /\ [][MaxIndexMonotone]_vars

\* three Puts, of three different keys, have returned success and each of them
\* flushed a table; nothing else was called
ThreeRounds ==
    /\ opened /\ crashes = 0 /\ hist.onlyPuts /\ steps = 3
    /\ t.memTableThreshold = 2 /\ t.immutableMemtableMaxNum = 1
    /\ t.diskTableNumThreshold = 2
    /\ t.maxDiskTableIndex = 2
    /\ \A k \in {1, 2, 3} : hist.last[k] = "put"

AllThreeReadable == \A k \in {1, 2, 3} : Get(t, disk, k) = Hit(hist.value[k])

InitMem ==
    /\ \E variant \in {"skiplist", "rbytree"} : t = Fresh(variant, <<2, 1, 2, 2>>)
    /\ disk = [wal |-> <<>>, meta |-> <<>>, files |-> <<>>]
    /\ opened = TRUE
    /\ ret = NoRet
    /\ env = [keys |-> Keys, vals |-> Values \cup {3}, maxSteps |-> MaxSteps]
    /\ steps = 0
    /\ crashes = 0
    /\ hist = NoHist
    /\ codec = NoCodec
    /\ conn = NoConns
    /\ io = NoIO
    /\ ring = NoRing

\* memTable.put(key, value)
MemTablePut(key, value) ==
    /\ steps < env.maxSteps
    /\ t' = [t EXCEPT !.memTable = memPut(t.variant, @, key, value)]
    /\ ret' = Returned("memput", key, value, "OK")
    /\ hist' = [hist EXCEPT !.last[key] = "put", !.value[key] = value]
    /\ steps' = steps + 1
    /\ UNCHANGED <<disk, opened, env, crashes, codec, conn, io, ring>>

\* memTable.delete(key); exists is what SkipList.Delete returned under it
MemTableDelete(key) ==
    /\ steps < env.maxSteps
    /\ t' = [t EXCEPT !.memTable = memDelete(t.variant, @, key)]
    /\ ret' = [Returned("memdelete", key, Nil, "OK")
                  EXCEPT !.exists = memGet(t.variant, t.memTable, key)[2]]
    /\ hist' = IF t.variant = "skiplist" /\ ~memGet(t.variant, t.memTable, key)[2]
               THEN hist
               ELSE [hist EXCEPT !.last[key] = "deleted", !.value[key] = Nil]
    /\ steps' = steps + 1
    /\ UNCHANGED <<disk, opened, env, crashes, codec, conn, io, ring>>

\* memTable.get(key)
MemTableGet(key) ==
    /\ ret' = [Returned("memget", key, Nil, "OK")
                  EXCEPT !.value = memGet(t.variant, t.memTable, key)[1],
                         !.exists = memGet(t.variant, t.memTable, key)[2]]
    /\ UNCHANGED <<t, disk, opened, env, steps, crashes, hist, codec, conn, io, ring>>

NextMem ==
    \/ \E k \in env.keys, v \in env.vals : MemTablePut(k, v)
    \/ \E k \in env.keys : MemTableDelete(k)
    \/ \E k \in env.keys : MemTableGet(k)

SpecMem == InitMem /\ [][NextMem]_vars

\* ------------------------------------------------- the client's HashRing
\* A node name is a number of 1..NumNodes; NoNode is the empty string.  MD5 is
\* taken as any function from the virtual node keys to the hash values
\* 0..RingSize-1, fixed for the behaviour (hashOf); a key hashes to any hash
\* value.

\* sort.Slice(m.keys, <)
RECURSIVE SortKeys(_)
SortKeys(keys) ==
    IF keys = <<>> THEN <<>>
    ELSE LET i == CHOOSE i \in 1..Len(keys) : \A j \in 1..Len(keys) : keys[i] <= keys[j]
         IN  <<keys[i]>> \o SortKeys(SubSeq(keys, 1, i - 1) \o SubSeq(keys, i + 1, Len(keys)))

\* HashRing.Add(node)
HashRingAdd(r, node) ==
    LET points == [i \in 1..PointsPerNode |-> r.hashOf[<<node, i>>]]
        taken == {points[i] : i \in 1..PointsPerNode}
    IN  [r EXCEPT !.keys = SortKeys(r.keys \o points),
                  !.hashMap = [h \in DOMAIN r.hashMap \cup taken |->
                                   IF h \in taken THEN node ELSE r.hashMap[h]]]

\* HashRing.Get(key), hash being hash(md5(key), 0): [node, err]; m.hashMap[k]
\* is "" for a k the map does not hold
HashRingGet(r, hash) ==
    LET from == {i \in 1..Len(r.keys) : r.keys[i] >= hash}
        idx == IF from = {} THEN 1 ELSE CHOOSE i \in from : \A j \in from : i <= j
        At(k) == IF k \in DOMAIN r.hashMap THEN r.hashMap[k] ELSE NoNode
    IN  IF Len(r.keys) = 0 THEN [node |-> NoNode, err |-> "OK"]
        ELSE IF DOMAIN r.hashMap = {} THEN [node |-> NoNode, err |-> "NO_NODE"]
        ELSE [node |-> At(r.keys[idx]), err |-> "OK"]

\* HashRing.Remove(node): the map loses the entries of the node; newKeys
\* takes the keys whose entry, looked up after that, is not the node
HashRingRemove(r, node) ==
    LET left == [h \in {h \in DOMAIN r.hashMap : r.hashMap[h] # node} |-> r.hashMap[h]]
        Kept(k) == (IF k \in DOMAIN left THEN left[k] ELSE NoNode) # node
    IN  [r EXCEPT !.hashMap = left, !.keys = SortKeys(SelectSeq(r.keys, Kept))]

\* NewRing, with members the nodes added and not removed since
InitRing ==
    /\ \E h \in [(1..NumNodes) \X (1..PointsPerNode) -> 0..(RingSize - 1)] :
          ring = [at |-> "on", keys |-> <<>>, hashMap |-> <<>>, hashOf |-> h,
                  members |-> {}, ops |-> 0]
    /\ t = Fresh("skiplist", <<2, 1, 2, 2>>)
    /\ disk = [wal |-> <<>>, meta |-> <<>>, files |-> <<>>]
    /\ opened = FALSE
    /\ ret = NoRet
    /\ env = [keys |-> 1..NumNodes, vals |-> {}, maxSteps |-> MaxRingOps]
    /\ steps = 0
    /\ crashes = 0
    /\ hist = NoHist
    /\ codec = NoCodec
    /\ conn = NoConns
    /\ io = NoIO

RingAdd(node) ==
    /\ ring.ops < env.maxSteps
    /\ ring' = [HashRingAdd(ring, node) EXCEPT !.members = @ \cup {node}, !.ops = @ + 1]
    /\ ret' = Returned("ringadd", node, 0, "OK")
    /\ UNCHANGED <<t, disk, opened, env, steps, crashes, hist, codec, conn, io>>

RingRemove(node) ==
    /\ ring.ops < env.maxSteps
    /\ ring' = [HashRingRemove(ring, node) EXCEPT !.members = @ \ {node}, !.ops = @ + 1]
    /\ ret' = Returned("ringremove", node, 0, "OK")
    /\ UNCHANGED <<t, disk, opened, env, steps, crashes, hist, codec, conn, io>>

\* HuaHuoLsmClient.Set / Get: GetRing().Get(key)
RingGet(hash) ==
    /\ \E g \in {HashRingGet(ring, hash)} :
          ret' = [Returned("ringget", hash, 0, g.err) EXCEPT !.value = g.node]
    /\ UNCHANGED <<t, disk, opened, env, steps, crashes, hist, codec, conn, io, ring>>

NextRing ==
    \/ \E n \in env.keys : RingAdd(n)
    \/ \E n \in env.keys : RingRemove(n)
    \/ \E h \in 0..(RingSize - 1) : RingGet(h)

SpecRing == InitRing /\ [][NextRing]_vars

\* the loop of loadMemTable over the bytes of a WAL: decode is called until it
\* returns an error; [err, records, nil], records being the number of records
\* that went into the memtable and nil saying that no memtable is returned:
\* at io.EOF the function returns the memtable it made before the loop, at
\* any other error it returns nil
RECURSIVE DecodeLoop(_, _, _)
DecodeLoop(variant, stream, records) ==
    LET Step(d) ==
            IF d.err # "OK"
            THEN [err |-> d.err, records |-> records, nil |-> d.err # "EOF"]
            ELSE DecodeLoop(variant, SubSeq(stream, d.read + 1, Len(stream)), records + 1)
    IN  Step(decode(variant, stream))

\* the file loses its tail: the process or the machine stopped inside a write
TearCall ==
    /\ codec.at = "encoded"
    /\ \E n \in 0..(Len(codec.stream) - 1) :
          codec' = [codec EXCEPT !.at = "torn", !.stream = SubSeq(codec.stream, 1, n)]
    /\ UNCHANGED <<t, disk, opened, ret, env, steps, crashes, hist, conn, io, ring>>

\* loadMemTable(wal) on the file that is left
LoadCall ==
    /\ codec.at = "torn"
    /\ codec' = [codec EXCEPT !.at = "loaded",
                              !.out = DecodeLoop(codec.variant, codec.stream, 0)]
    /\ UNCHANGED <<t, disk, opened, ret, env, steps, crashes, hist, conn, io, ring>>

NextTorn == EncodeCall \/ TearCall \/ LoadCall

\* a WAL of one or two records cut short at any byte, under loadMemTable
SpecTorn == InitCodec /\ [][NextTorn]_vars

\* ---------------------------------------------------------------------------
\* The server's traffic handler: length-prefixed request frames of one
\* connection, answered from the storage engine.
\* A frame is a 4-byte big-endian length and a payload; the payload carries
\* the command (1 "get", 2 "set", 3 "del"), the key and, for "set", the value.
\* conn = [at, reqs, wire, buf, out, seen, nilEncode, down]: the requests the
\* client sends, the bytes still on the way, the inbound buffer, the
\* response frames written, the frames taken from the buffer, what Encode
\* does on a nil response, and whether the process went down.

\* the state of a connection whose client sends reqs: nothing has arrived
InitFrames ==
    /\ \E n \in 1..MaxFrames :
         \E reqs \in [1..n -> [cmd : {"get", "set", "del"}, key : Keys,
                               value : Values]] :
           \E nilEncode \in {"panic", "error", "empty"} :
             LET CmdByte(c) == CASE c = "get" -> 1 [] c = "set" -> 2 [] OTHER -> 3
                 Payload(r) == IF r.cmd = "set" THEN <<CmdByte(r.cmd), r.key, r.value>>
                               ELSE <<CmdByte(r.cmd), r.key>>
                 Frame(r) == <<0, 0, 0, Len(Payload(r))>> \o Payload(r)
                 Wire[i \in 0..n] == IF i = 0 THEN <<>> ELSE Wire[i - 1] \o Frame(reqs[i])
             IN  /\ \A i \in 1..n : reqs[i].cmd # "set" => reqs[i].value = 1
                 /\ conn = [at |-> "frames", reqs |-> reqs, wire |-> Wire[n],
                            buf |-> <<>>, out |-> <<>>, seen |-> 0,
                            nilEncode |-> nilEncode, down |-> FALSE]
    /\ t = Fresh("skiplist", <<2, 1, 2, 2>>)
    /\ disk = [wal |-> <<>>, meta |-> <<>>, files |-> <<>>]
    /\ opened = TRUE
    /\ ret = NoRet
    /\ env = [keys |-> Keys, vals |-> Values, maxSteps |-> MaxFrames]
    /\ steps = 0
    /\ crashes = 0
    /\ hist = NoHist
    /\ codec = NoCodec
    /\ io = NoIO
    /\ ring = NoRing

\* BluebellServer.OnTraffic on s = [buf, out, seen, t, disk, nilEncode, down]:
\* the states the loop can return in
RECURSIVE OnTraffic(_)
OnTraffic(s) ==
    LET messageLength ==
            ((s.buf[1] * 256 + s.buf[2]) * 256 + s.buf[3]) * 256 + s.buf[4]
        message == SubSeq(s.buf, 5, 4 + messageLength)
        Taken == [s EXCEPT !.buf = SubSeq(@, 5 + messageLength, Len(@)),
                           !.seen = @ + 1]
        Written(code, tree, dir) ==
            OnTraffic([Taken EXCEPT !.out = Append(@, [req |-> s.seen + 1, code |-> code]),
                                    !.t = tree, !.disk = dir])
        HandleGet(g) ==
            Written(IF g.err = "OK" /\ g.exists THEN "0" ELSE "1", s.t, s.disk)
        HandleSet(key, value) ==
            UNION { Written(IF r.err = "OK" THEN "0" ELSE "1", r.t, r.disk) :
                    r \in { PutRun(s.t, s.disk, key, value, order) :
                            order \in PutOrders(s.t, s.disk, key, value) } }
        NilResponse ==
            CASE s.nilEncode = "panic" -> { [Taken EXCEPT !.down = TRUE] }
              [] s.nilEncode = "error" -> OnTraffic(Taken)
              [] OTHER -> Written("", s.t, s.disk)
        Handled ==
            IF Len(message) < 2 \/ message[1] \notin {1, 2, 3} \/
               (message[1] = 2 /\ Len(message) < 3)
            THEN OnTraffic(Taken)
            ELSE CASE message[1] = 1 -> HandleGet(Get(s.t, s.disk, message[2]))
                   [] message[1] = 2 -> HandleSet(message[2], message[3])
                   [] OTHER -> NilResponse
    IN  IF Len(s.buf) < 4 THEN {s}
        ELSE IF Len(s.buf) < messageLength + 4 THEN {s}
        ELSE Handled

\* the next n bytes of the client arrive and the event loop calls OnTraffic
Traffic(n) ==
    /\ conn.at = "frames"
    /\ opened
    /\ n \in 1..Len(conn.wire)
    /\ \E s \in OnTraffic([buf |-> conn.buf \o SubSeq(conn.wire, 1, n),
                           out |-> conn.out, seen |-> conn.seen, t |-> t,
                           disk |-> disk, nilEncode |-> conn.nilEncode,
                           down |-> FALSE]) :
          /\ conn' = [conn EXCEPT !.wire = SubSeq(@, n + 1, Len(@)), !.buf = s.buf,
                                  !.out = s.out, !.seen = s.seen, !.down = s.down]
          /\ t' = s.t
          /\ disk' = s.disk
          /\ opened' = ~s.down
    /\ ret' = Returned("traffic", 0, n, "OK")
    /\ UNCHANGED <<env, steps, crashes, hist, codec, io, ring>>

NextFrames == \E n \in 1..(7 * MaxFrames) : Traffic(n)

SpecFrames == InitFrames /\ [][NextFrames]_vars

\* C14: decode of what encode(K, V) wrote returns K and V (no value slice for
\* an empty V) and reads exactly the bytes encode reported; encode wrote two
\* 8-byte length fields, the first of which holds 8 + len(K) + len(V).
C14_CodecRoundTrip ==
    codec.at = "decoded"
        => /\ codec.out.err = "OK"
           /\ codec.out.key = codec.key
           /\ codec.out.value = codec.value
           /\ codec.out.nil = (codec.value = <<>>)
           /\ codec.out.read = codec.bytes
           /\ codec.bytes = IntWidth + IntWidth + Len(codec.key) + Len(codec.value)
           /\ decodeInt(SubSeq(codec.stream, 1, IntWidth))
                  = IntWidth + Len(codec.key) + Len(codec.value)

\* the record rec is in a data file of the directory
Written(files, rec) ==
    \E n \in DOMAIN files :
        n[2] = "data" /\ \E i \in 1..Len(files[n]) : files[n][i] = rec

\* a step that takes memtables off the immutable list leaves every record of
\* every memtable it takes off in a data file
NoUnwrittenDrop ==
    Len(t'.immutableMemtables) < Len(t.immutableMemtables)
        => \A i \in 1..Len(t.immutableMemtables) :
              \A j \in 1..Len(t.immutableMemtables[i].data) :
                 Written(disk'.files, t.immutableMemtables[i].data[j])

\* when no call is in progress, every key whose Put returned success reads as
\* a value put to it, as it does after the calls in either order; no Get that
\* ran beside a Put returned an error
SerialOutcome ==
    /\ (\A c \in Conns : conn.h[c].pc = "idle")
          => \A c \in Conns :
                (conn.h[c].res.op = "put" /\ conn.h[c].res.err = "OK")
                    => /\ Get(t, disk, conn.h[c].res.key).err = "OK"
                       /\ Get(t, disk, conn.h[c].res.key).exists
                       /\ Get(t, disk, conn.h[c].res.key).value \in env.vals
    /\ \A c \in Conns : conn.h[c].res.op = "get" => conn.h[c].res.err = "OK"

\* C15: Puts (and a Put and a Get) of the handlers of two connections on the
\* shared LSMTree leave what the calls leave when run one after the other, and
\* no interleaving takes a frozen memtable off the immutable list before its
\* records are in an on-disk table.
C15_EngineOpsSerialize == []SerialOutcome /\ [][NoUnwrittenDrop]_vars

\* the positions of the immutable memtables that hold k
FrozenWith(k) ==
    {i \in 1..Len(t.immutableMemtables) : Holds(t.immutableMemtables[i].data, k)}

\* C16: when K is in two or more immutable memtables and not in the mutable
\* one, Get(K) returns what the memtable frozen last among them holds for K.
C16_ImmutablesNewestFirst ==
    \A k \in AllKeys :
        (opened /\ ~Holds(t.memTable.data, k) /\ Cardinality(FrozenWith(k)) >= 2)
            => \E newest \in FrozenWith(k) :
                  /\ \A i \in FrozenWith(k) : i <= newest
                  /\ Get(t, disk, k) =
                         Hit(memGet(t.variant, t.immutableMemtables[newest], k)[1])

\* this step is a Put that returned success
PutReturnedOK == steps' = steps + 1 /\ ret'.op = "put" /\ ret'.err = "OK"

\* the mutable memtable with the record of the Put in it
WithPut == memPut(t.variant, t.memTable, ret'.key, ret'.arg)

\* a Put whose record brings the memtable to the threshold leaves a fresh
\* memtable and the old one, the new record included, at the tail of the
\* immutable list (or, when the list reached its cap, in the table the same Put
\* flushed); any other Put leaves the memtable, with the record, in place
FreezeStep ==
    PutReturnedOK =>
        IF WithPut.size >= t.memTableThreshold
        THEN /\ t'.memTable = newMemTable
             /\ IF Len(t.immutableMemtables) + 1 >= t.immutableMemtableMaxNum
                THEN /\ t'.immutableMemtables = <<>>
                     /\ \A j \in 1..Len(WithPut.data) : Written(disk'.files, WithPut.data[j])
                ELSE t'.immutableMemtables = Append(t.immutableMemtables, WithPut)
        ELSE /\ t'.memTable = WithPut
             /\ t'.immutableMemtables = t.immutableMemtables

BelowThreshold ==
    (ret.op = "put" /\ ret.err = "OK") => t.memTable.size < t.memTableThreshold

FrozenList ==
    IF WithPut.size >= t.memTableThreshold
    THEN Append(t.immutableMemtables, WithPut)
    ELSE t.immutableMemtables

\* this step is a Put that passed its checks and whose immutable list reached
\* immutableMemtableMaxNum
PutFlushed ==
    /\ steps' = steps + 1
    /\ ret'.op = "put"
    /\ PutCheck(ret'.key, ret'.arg) = "OK"
    /\ Len(FrozenList) >= t.immutableMemtableMaxNum

\* what the memtable frozen last among those of list that hold k holds for k
NewestFrozenValue(list, k) ==
    LET with == {i \in 1..Len(list) : Holds(list[i].data, k)}
        newest == CHOOSE i \in with : \A j \in with : j <= i
    IN  memGet(t.variant, list[newest], k)[1]

\* the state the flush of this Put leaves, before the compaction block
FlushEffect(h) ==
    /\ h.err = "OK"
    /\ \A kind \in {"data", "index", "sparse"} :
           /\ ~Exists(disk.files, FileName(t.maxDiskTableIndex + 1, kind))
           /\ Exists(h.disk.files, FileName(t.maxDiskTableIndex + 1, kind))
    /\ \A k \in AllKeys :
           (\E i \in 1..Len(FrozenList) : Holds(FrozenList[i].data, k))
               => /\ searchInDiskTable(h.disk.files, t.maxDiskTableIndex + 1, k).exists
                  /\ searchInDiskTable(h.disk.files, t.maxDiskTableIndex + 1, k).value
                         = NewestFrozenValue(FrozenList, k)
    /\ h.disk.meta = <<t.diskTableNum + 1, t.maxDiskTableIndex + 1>>
    /\ h.t.diskTableNum = t.diskTableNum + 1
    /\ h.t.maxDiskTableIndex = t.maxDiskTableIndex + 1
    /\ h.disk.wal = <<>>
    /\ h.t.immutableMemtables = <<>>
    /\ ~NeedsCompaction(h.t) => (t' = h.t /\ disk' = h.disk)
    /\ t'.immutableMemtables = <<>>
    /\ disk'.wal = <<>>

FlushStep == PutFlushed => FlushEffect(PutHead(t, disk, ret'.key, ret'.arg))

\* C18: a Put that leaves the immutable list at or above immutableMemtableMaxNum
\* writes one new table at maxDiskTableIndex + 1 in which every key of the
\* immutable memtables reads as in the memtable frozen last among those holding
\* it, sets the metadata to (diskTableNum + 1, maxDiskTableIndex + 1), and
\* leaves the WAL and the immutable list empty.
C18_FlushEffect == [][FlushStep]_vars

\* the three files of table index, as the directory dir has them
TableFiles(dir, index) == [kind \in {"data", "index", "sparse"} |-> dir[FileName(index, kind)]]

\* the number of records of the immutable memtables
RECURSIVE FrozenRecords(_, _)
FrozenRecords(list, i) ==
    IF i > Len(list) THEN 0 ELSE list[i].num + FrozenRecords(list, i + 1)

\* maxdisktable is rewritten only when the three files of the new table hold
\* every record of the flush and are on stable storage
TableBeforeMeta ==
    (disk'.meta # disk.meta /\ io.pc = "table")
        => /\ \A kind \in {"data", "index", "sparse"} :
                  Exists(disk.files, FileName(t.maxDiskTableIndex + 1, kind))
           /\ Len(disk.files[FileName(t.maxDiskTableIndex + 1, "data")])
                  = FrozenRecords(t.immutableMemtables, 1)
           /\ TableFiles(io.stable.files, t.maxDiskTableIndex + 1)
                  = TableFiles(disk.files, t.maxDiskTableIndex + 1)

\* the WAL is truncated only when maxdisktable holds the new pair, on stable
\* storage too
MetaBeforeTruncate ==
    (io.pc = "meta" /\ io'.pc = "compact")
        => /\ disk.meta = <<t.diskTableNum + 1, t.maxDiskTableIndex + 1>>
           /\ io.stable.meta = disk.meta

\* diskTableNum and maxDiskTableIndex advance in the step that truncated the WAL
AdvanceLast ==
    (opened /\ opened' /\ t'.maxDiskTableIndex # t.maxDiskTableIndex)
        => /\ io.pc = "meta"
           /\ disk'.wal = <<>>
           /\ disk.meta = <<t'.diskTableNum, t'.maxDiskTableIndex>>

\* a failed step of the flush ends the call: the steps after it have not run
FailureStops ==
    (io.pc \in {"flush", "table", "meta"} /\ io'.pc = "idle" /\ opened')
        => /\ ret'.err = "IO"
           /\ t' = t
           /\ disk'.wal = disk.wal
           /\ io.pc = "flush" => disk'.meta = disk.meta

\* C19: in a flush the table files are written and synced before maxdisktable
\* is rewritten, maxdisktable is rewritten and on stable storage before the WAL
\* is truncated, diskTableNum and maxDiskTableIndex advance after all of it,
\* and a failing step ends the flush.
C19_FlushStepOrder ==
    [][TableBeforeMeta /\ MetaBeforeTruncate /\ AdvanceLast /\ FailureStops]_vars

\* the mutable memtable changes only behind the record of the call, which is
\* then the last one of the WAL, in the file and on stable storage
WalFirst ==
    (opened /\ opened' /\ t'.memTable # t.memTable)
        => /\ io.pc = "logged"
           /\ Len(disk.wal) > 0
           /\ disk.wal[Len(disk.wal)] = <<io.key, io.value>>
           /\ io.stable.wal = disk.wal

\* a failing appendToWAL ends the call with an error and leaves the struct,
\* the tables and maxdisktable as they were
FailureAtomic ==
    (io.pc = "called" /\ io'.pc = "idle" /\ opened')
        => /\ ret'.op = io.op
           /\ ret'.err # "OK"
           /\ t'.memTable = t.memTable
           /\ t'.immutableMemtables = t.immutableMemtables
           /\ t'.diskTableNum = t.diskTableNum
           /\ t'.maxDiskTableIndex = t.maxDiskTableIndex
           /\ disk'.files = disk.files
           /\ disk'.meta = disk.meta

\* C20: Put and Delete change the mutable memtable only after their record is
\* appended to the WAL and synced; when appendToWAL fails the call returns an
\* error and the mutable memtable, the immutable list, the tables and the
\* metadata are unchanged.
C20_WalFirstAtomic == [][WalFirst /\ FailureAtomic]_vars

\* a Delete has failed in the Sync of its WAL record after a Put went through
C20_Witness ==
    /\ opened
    /\ io.pc = "idle"
    /\ io.failed = "sync"
    /\ ret.op = "delete"
    /\ ret.err = "IO"
    /\ Holds(t.memTable.data, ret.key)

\* the records the memtables of the struct hold
Held(tree) ==
    {tree.memTable.data[j] : j \in 1..Len(tree.memTable.data)}
        \cup UNION {{tree.immutableMemtables[i].data[j] :
                         j \in 1..Len(tree.immutableMemtables[i].data)} :
                    i \in 1..Len(tree.immutableMemtables)}

\* between two calls every record held in a memtable is in the WAL
WalCovers ==
    (opened /\ io.pc = "idle")
        => \A rec \in Held(t) : \E i \in 1..Len(disk.wal) : disk.wal[i] = rec

\* the record is in the data file of a table that maxdisktable counts
Recorded(dir, rec) ==
    \E n \in DOMAIN dir.files :
        /\ n[2] = "data"
        /\ n[1] \in (dir.meta[2] - dir.meta[1] + 1)..dir.meta[2]
        /\ \E i \in 1..Len(dir.files[n]) : dir.files[n][i] = rec

\* the truncation of the WAL takes no record of a memtable away that is not in
\* a table maxdisktable counts
TruncateCovered ==
    (io.pc = "meta" /\ io'.pc = "compact")
        => \A rec \in Held(t) : Recorded(disk, rec)

\* C21: between operations every mutation held in the mutable or in an
\* immutable memtable is recorded in the WAL, and a flush truncates the WAL
\* only when the records it discards are in a table recorded in maxdisktable,
\* also when the flush is the retry of one that failed in an earlier Put.
C21_WalCoverage == []WalCovers /\ [][TruncateCovered]_vars

\* the value the data file holds for k
ValueIn(data, k) == data[CHOOSE i \in 1..Len(data) : data[i][1] = k][2]

\* what a merge of the data files a (older) and b must write
MergeResult(a, b, out) ==
    /\ StrictlyAscending(out)
    /\ \A k \in TableKeys : Holds(out, k) <=> (Holds(a, k) \/ Holds(b, k))
    /\ \A k \in TableKeys :
           /\ Holds(b, k) => ValueIn(out, k) = ValueIn(b, k)
           /\ (Holds(a, k) /\ ~Holds(b, k)) => ValueIn(out, k) = ValueIn(a, k)

MergeStep ==
    (ret'.op = "merge" /\ ret.op # "merge")
        => /\ ret'.err = "OK"
           /\ MergeResult(disk.files[FileName(0, "data")], disk.files[FileName(1, "data")],
                          disk'.files[FileName(1, "data")])

\* C22: the merge of two tables a < b with strictly ascending unique keys
\* ends with a table that holds the union of their keys, strictly ascending,
\* each key with b's value when b has it and with a's value otherwise, empty
\* values included.
C22_MergeResult == [][MergeStep]_vars

\* a merge has written a key of both tables, a key of the older table only and
\* a tombstone
C22_Witness ==
    /\ ret.op = "merge"
    /\ ret.err = "OK"
    /\ disk.files[FileName(1, "data")] = << <<1, 1>>, <<2, 2>>, <<3, Nil>> >>

\* this step is a Put that returned nil after its compaction block merged a pair
PutMerged(h) ==
    /\ steps' = steps + 1
    /\ ret'.op = "put"
    /\ ret'.err = "OK"
    /\ h.err = "OK"
    /\ NeedsCompaction(h.t)
    /\ ScanOf(h).merged

\* what the merge of a and a + 1 leaves of the directory before
MergedFrame(before, a, meta) ==
    /\ \A kind \in {"data", "index", "sparse"} :
           /\ ~Exists(disk'.files, FileName(a, kind))
           /\ ~Exists(disk'.files, FileName(MergePrefix, kind))
           /\ Exists(disk'.files, FileName(a + 1, kind))
    /\ TableFiles(disk'.files, a + 1)
           = TableFiles(StoreTable(<<>>, a + 1,
                                   merge(before[FileName(a, "data")],
                                         before[FileName(a + 1, "data")],
                                         t.sparseKeyDistance)), a + 1)
    /\ disk'.meta = meta
    /\ \A n \in DOMAIN before :
           n[1] \notin {a, a + 1, MergePrefix}
               => Exists(disk'.files, n) /\ disk'.files[n] = before[n]

MergeFrameStep ==
    \A h \in {PutHead(t, disk, ret'.key, ret'.arg)} :
        PutMerged(h)
            => MergedFrame(h.disk.files, ScanOf(h).a,
                           <<h.t.diskTableNum - 1, h.t.maxDiskTableIndex>>)

\* C23: after a merge of a < b inside a Put that returns nil there is no file of
\* a and no merge file, the files of b hold the merged table, maxdisktable is
\* (diskTableNum - 1, maxDiskTableIndex), and the files of every other table
\* are where and what they were.
C23_MergeFrame == [][MergeFrameStep]_vars

\* the flush has its table on stable storage when createDiskTable returns
FlushSynced ==
    (io.pc = "flush" /\ io'.pc = "table")
        => TableFiles(io'.stable.files, t.maxDiskTableIndex + 1)
               = TableFiles(disk'.files, t.maxDiskTableIndex + 1)

\* the merge has its table on stable storage when the sources are gone and the
\* merge files carry the name of b
MergeSynced ==
    (io.pc = "compact" /\ opened' /\ t'.diskTableNum = t.diskTableNum - 1)
        => \A b \in {ScanOf([t |-> t, disk |-> disk]).a + 1} :
               /\ ~Exists(disk'.files, FileName(MergePrefix, "data"))
               /\ Len(disk'.files[FileName(b, "data")]) > 0
               /\ TableFiles(io'.stable.files, b) = TableFiles(disk'.files, b)

\* C24: the writer of a flush and the writer of a merge sync their data, index
\* and sparse files after the last record and before the table is referred
\* to: the merge before the files of a and b are removed and the merge files
\* renamed.
C24_WriterSynced == [][FlushSynced /\ MergeSynced]_vars

\* the lower indices of the adjacent pairs of data files in the directory whose
\* sizes together are within the ceiling
MergeablePairs(files) ==
    {n[1] : n \in {m \in DOMAIN files :
                     /\ m[2] = "data"
                     /\ m[1] >= 0
                     /\ Exists(files, FileName(m[1] + 1, "data"))
                     /\ GetFileSize(files, m) + GetFileSize(files, FileName(m[1] + 1, "data"))
                            <= MergeSizeCeiling}}

\* the compaction block, entered in the state h, fails as stuck exactly when
\* no pair is mergeable, and otherwise merges the lowest mergeable pair and
\* no other
Selected(h) ==
    /\ (ret'.err = "COMPACTION_STUCK") <=> (MergeablePairs(h.disk.files) = {})
    /\ ret'.err = "OK" =>
         \E a \in MergeablePairs(h.disk.files) :
            /\ \A i \in MergeablePairs(h.disk.files) : a <= i
            /\ a >= h.t.maxDiskTableIndex - h.t.diskTableNum + 1
            /\ disk'.files[FileName(a + 1, "data")]
                   = merge(h.disk.files[FileName(a, "data")],
                           h.disk.files[FileName(a + 1, "data")], t.sparseKeyDistance).data
            /\ t'.diskTableNum = h.t.diskTableNum - 1

SelectionStep ==
    \A h \in {PutHead(t, disk, ret'.key, ret'.arg)} :
        (steps' = steps + 1 /\ ret'.op = "put" /\ h.err = "OK" /\ NeedsCompaction(h.t))
            => Selected(h)

RECURSIVE OtherTables(_, _, _, _)
OtherTables(files, i, max, a) ==
    IF i > max THEN <<>>
    ELSE IF i \in {a, a + 1} \/ ~Exists(files, FileName(i, "data"))
    THEN OtherTables(files, i + 1, max, a)
    ELSE <<files[FileName(i, "data")]>> \o OtherTables(files, i + 1, max, a)

\* the compaction of this Put, entered in the state h, changes what no key
\* reads as
SameReads(h) == \A k \in AllKeys : Get(t', disk', k) = Get(h.t, h.disk, k)

\* it leaves the tables it did not merge, all of them, in their order of age
SameTables(h) ==
    OtherTables(disk'.files, 0, h.t.maxDiskTableIndex, ScanOf(h).a)
        = OtherTables(h.disk.files, 0, h.t.maxDiskTableIndex, ScanOf(h).a)

InvisibleStep ==
    \A h \in {PutHead(t, disk, ret'.key, ret'.arg)} :
        PutMerged(h) => SameReads(h) /\ SameTables(h)

\* C26: the compaction inside a Put changes the result of Get for no key;
\* when pairs were skipped for their size and their renames are applied after
\* the merge, in whatever order, no table is overwritten or lost and the
\* tables keep their order of age.
C26_CompactionInvisible == [][InvisibleStep]_vars

\* C27: between operations, of runs in which every call returned, the table
\* triples in the directory are those of the indices maxDiskTableIndex -
\* diskTableNum + 1 .. maxDiskTableIndex, the range the compaction scan of Put
\* starts from.
C27_LiveIndexRange ==
    (opened /\ crashes = 0 /\ ret.err = "OK")
        => TableTriples(disk.files)
               = (t.maxDiskTableIndex - t.diskTableNum + 1)..t.maxDiskTableIndex

\* C28: with diskTableNumThreshold >= 2, in a process whose Open read a
\* diskTableNum below the threshold, diskTableNum is below the threshold after
\* every Put that returned nil.
C28_BoundedTableCount ==
    (opened /\ ret.op = "put" /\ ret.err = "OK"
        /\ t.diskTableNumThreshold >= 2 /\ hist.belowAtOpen)
        => t.diskTableNum < t.diskTableNumThreshold

\* Put returns an error from its flush or from its compaction block
PutFailsLate ==
    /\ opened'
    /\ io.pc \in {"flush", "table", "meta", "compact"}
    /\ io'.pc = "idle"
    /\ ret'.op = "put"
    /\ ret'.err # "OK"

\* the record of the call is not in the WAL, and Get of its key does not
\* give its value
NotApplied ==
    /\ \A i \in 1..Len(disk'.wal) : disk'.wal[i] # <<ret'.key, ret'.arg>>
    /\ Get(t', disk', ret'.key).value # ret'.arg

\* C29: when Put(K, V) returns an error from its flush or compaction stage,
\* the record (K, V) is not in the WAL and a following Get(K) does not return V.
C29_ErrorNotApplied == [][PutFailsLate => NotApplied]_vars

\* the three files of the table a search was run on
Searched(kind) == disk.files[FileName(ret.arg, kind)]

\* the search has the answer the data file gives
LookupRight(data) ==
    /\ ret.err = "OK"
    /\ ret.exists <=> Holds(data, ret.key)
    /\ ret.exists => ret.value = ValueIn(data, ret.key)
    /\ ~ret.exists => ret.value = Nil

\* a key below the first key of the table is refused by the sparse scan
BelowFirst(data) ==
    (Len(data) = 0 \/ ret.key < data[1][1])
        => ~searchInSparseIndex(Searched("sparse"), ret.key).ok

\* C30: for a table written by the writer from strictly ascending unique keys
\* with a sparseKeyDistance of 1 or more, searchInDiskTable returns the value
\* of the key and true exactly when the key is in the table and "not present"
\* otherwise, and a key below the first key is decided by the sparse scan.
C30_ThreeTierLookup ==
    ret.op = "search" => (LookupRight(Searched("data")) /\ BelowFirst(Searched("data")))

\* the second key of a table of two keys, which is no sample and lies in a
\* stride of three the table does not fill, was found
C30_Witness ==
    /\ ret.op = "search"
    /\ t.sparseKeyDistance = 3
    /\ Len(Searched("data")) = 2
    /\ Len(Searched("sparse")) = 1
    /\ ret.key = Searched("data")[2][1]
    /\ ret.exists
    /\ ret.value = Searched("data")[2][2]

\* the index holds, record by record, the key and the start of the data
\* record; the sparse file holds every d-th of them, counted from the first,
\* with the start of the index record
WriterOffsets(data, index, sparse, d) ==
    /\ Len(index) = Len(data)
    /\ \A j \in 1..Len(data) : index[j] = <<data[j][1], DataOffset(data, j)>>
    /\ Len(sparse) = (Len(data) + d - 1) \div d
    /\ \A m \in 1..Len(sparse) :
          sparse[m] = <<data[(m - 1) * d + 1][1], IndexOffset(index, (m - 1) * d + 1)>>

\* C31: in every table the writer produces, the j-th index record holds the
\* j-th key and the byte offset at which the j-th data record starts, and the
\* sparse file holds exactly the records with j mod sparseKeyDistance = 0 (j
\* from 0), each with the byte offset at which the j-th index record starts.
C31_WriterOffsets ==
    \A n \in DOMAIN disk.files :
        n[2] = "data"
            => WriterOffsets(disk.files[n], disk.files[FileName(n[1], "index")],
                             disk.files[FileName(n[1], "sparse")], t.sparseKeyDistance)

\* the merge has written a table of three records, the first and the third of
\* them sampled
C31_Witness ==
    /\ ret.op = "merge"
    /\ ret.err = "OK"
    /\ t.sparseKeyDistance = 2
    /\ Len(disk.files[FileName(1, "data")]) = 3
    /\ Len(disk.files[FileName(1, "sparse")]) = 2
    /\ disk.files[FileName(1, "sparse")][2][2] > 0

\* the file ends at the end of a record: at byte 0 or after the first record
CleanEnd == Len(codec.stream) \in {0, codec.bytes}

\* C32: decode returns EOF only when the stream ends before any header byte
\* is read; a record cut short inside its header, after its header or inside
\* its payload yields CORRUPT, so that loadMemTable fails on a WAL whose last
\* record is torn and loads every record of a WAL that ends cleanly.
C32_TornIsCorrupt ==
    (codec.at = "loaded" /\ codec.variant = "binary")
        => IF CleanEnd
           THEN /\ codec.out.err = "EOF"
                /\ codec.out.records = (IF Len(codec.stream) = 0 THEN 0 ELSE 1)
           ELSE codec.out.err = "CORRUPT"

\* the memtables of the immutable list are where and what they were; the list
\* has grown at its tail at most
FrozenKept ==
    /\ Len(t'.immutableMemtables) >= Len(t.immutableMemtables)
    /\ \A i \in 1..Len(t.immutableMemtables) :
          t'.immutableMemtables[i] = t.immutableMemtables[i]

\* the list was emptied by a flush that went through, and every entry of
\* every memtable it held is in a data file
FrozenFlushed ==
    /\ t'.immutableMemtables = <<>>
    /\ io.pc # "off" => (io.pc = "meta" /\ io'.pc = "compact")
    /\ \A i \in 1..Len(t.immutableMemtables) :
          \A j \in 1..Len(t.immutableMemtables[i].data) :
             Written(disk'.files, t.immutableMemtables[i].data[j])

\* C33: a memtable in the immutable list keeps its entries and its byte size
\* under every Put, Delete and Get, and leaves the list only through a flush
\* that wrote its entries to an on-disk table and returned success.
C33_ImmutablesFrozen == [][(opened /\ opened') => (FrozenKept \/ FrozenFlushed)]_vars

\* the entries of a memtable that carry the key k
EntriesOf(mt, k) == {i \in 1..Len(mt.data) : mt.data[i][1] = k}

\* a put of a key whose latest operation was a put
PutAgain ==
    /\ steps' = steps + 1
    /\ ret'.op = "memput"
    /\ hist.last[ret'.key] = "put"

\* one entry for the key, with the new value; the count as before, the size
\* changed by the difference of the two value lengths; nothing changed at all
\* when the value is the one put before
Overwritten(old, new, k, v) ==
    /\ Cardinality(EntriesOf(new, k)) = 1
    /\ ValueIn(new.data, k) = v
    /\ new.num = old.num
    /\ new.size = old.size - ValLen(hist.value[k]) + ValLen(v)
    /\ hist.value[k] = v => new = old

\* C34: put(K, V2) after put(K, V1) leaves exactly one entry for K, with the
\* value V2, leaves the entry count unchanged and changes the byte size by
\* len(V2) - len(V1); putting the same (K, V) twice leaves the memtable as
\* putting it once does.
C34_PutOverwrites ==
    [][PutAgain => Overwritten(t.memTable, t'.memTable, ret'.key, ret'.arg)]_vars

\* a delete on the memtable
DeleteStep ==
    /\ steps' = steps + 1
    /\ ret'.op = "memdelete"

\* the key has one entry, the tombstone, which get and the iterator give; the
\* size went down by the length of the value held before, or up by the length
\* of a key not held before
Tombstoned(variant, old, new, k) ==
    /\ Cardinality(EntriesOf(new, k)) = 1
    /\ ValueIn(new.data, k) = Nil
    /\ memGet(variant, new, k) = <<Nil, TRUE>>
    /\ \A i \in 1..(Len(new.data) - 1) : new.data[i][1] <= new.data[i + 1][1]
    /\ new.size = IF memGet(variant, old, k)[2]
                  THEN old.size - ValLen(memGet(variant, old, k)[1])
                  ELSE old.size + KeyLen(k)

\* C35: after memTable.delete(K), for K held before and for K not held
\* before, the memtable holds an entry for K with the tombstone as its value:
\* get(K) returns (tombstone, true), the iterator yields (K, tombstone) in key
\* order, and the byte size dropped by the old value's length or grew by
\* len(K).
C35_DeleteStoresTombstone ==
    [][DeleteStep => Tombstoned(t.variant, t.memTable, t'.memTable, ret'.key)]_vars

\* C36: on one SkipList, after any Inserts and Deletes, Search(k) returns the
\* value of the latest Insert(k, v) when no Delete(k) followed it, and
\* not-found for a key never inserted and for a key whose latest operation is
\* a Delete(k) that returned true.
C36_SkipListSearch ==
    (t.variant = "skiplist" /\ ret.op = "memget")
        => IF hist.last[ret.key] = "put"
           THEN ret.exists /\ ret.value = hist.value[ret.key]
           ELSE ~ret.exists

\* C37: loadMemTable on a WAL file that holds no records returns no memtable
\* (nil) and no error; on a WAL file that holds records it returns a memtable
\* built from those records.
C37_LoadMemTableNil ==
    (codec.at = "loaded" /\ codec.variant = "binary" /\ CleanEnd)
        => /\ codec.out.err = "EOF"
           /\ codec.out.nil = (Len(codec.stream) = 0)
           /\ Len(codec.stream) > 0 => codec.out.records = 1

\* C38: after any Adds and Removes, HashRing.Get returns for every key a node
\* that is a member of the ring, never a removed node and never the empty
\* name; when the ring has no member it returns an error.
C38_RingMembership ==
    ret.op = "ringget"
        => IF ring.members = {}
           THEN ret.err # "OK"
           ELSE ret.err = "OK" /\ ret.value \in ring.members

\* the frames of the client whose last byte has arrived
FramesArrived ==
    LET FrameLen(r) == IF r.cmd = "set" THEN 7 ELSE 6
        End[i \in 0..Len(conn.reqs)] ==
            IF i = 0 THEN 0 ELSE End[i - 1] + FrameLen(conn.reqs[i])
        Arrived == End[Len(conn.reqs)] - Len(conn.wire)
    IN  Cardinality({ i \in 1..Len(conn.reqs) : End[i] <= Arrived })

\* C39: for every complete request frame that has arrived on a connection,
\* whatever its command ("get", "set" or "del"), the server has written
\* exactly one response frame with code "0" or "1", in the order the requests
\* arrived; a frame that is only partly buffered has no response.
C39_OneResponsePerRequest ==
    conn.at = "frames"
        => /\ Len(conn.out) = FramesArrived
           /\ \A i \in 1..Len(conn.out) :
                /\ conn.out[i].req = i
                /\ conn.out[i].code \in {"0", "1"}

\* the same statement for connections that carry only "get" and "set"
C39_GetSetAnswered ==
    (\A i \in 1..Len(conn.reqs) : conn.reqs[i].cmd # "del")
        => C39_OneResponsePerRequest

\* a "get" of a key set before it, answered "0" after its frame came in two pieces
C39_Witness ==
    /\ conn.at = "frames"
    /\ Len(conn.reqs) = 2
    /\ conn.reqs[1].cmd = "set" /\ conn.reqs[2].cmd = "get"
    /\ conn.reqs[1].key = conn.reqs[2].key
    /\ conn.wire = <<>>
    /\ ret.arg < 6
    /\ Len(conn.out) = 2 /\ conn.out[2].code = "0"

====
